---- MODULE Spec2Model ----
(***************************************************************************)
(* Model of the Markdown -> styled HTML -> PDF pipeline of                 *)
(* server/pdfGenerator.ts.                                                 *)
(*                                                                         *)
(* Strings.  A JavaScript string is modelled as a sequence of tokens.      *)
(* Data that reaches the renderer from outside (node values, URLs, the     *)
(* strings of a formatting rule) is a sequence of one-character tokens.    *)
(* A literal chunk of a template string in the source is one token that    *)
(* holds the whole chunk, and an interpolated number is the token          *)
(* ToString(n).  Concatenation (+=, template interpolation) is \o.         *)
(***************************************************************************)
EXTENDS Integers, Sequences, FiniteSets, TLC

(***************************************************************************)
(* Bounds of the model.                                                    *)
(***************************************************************************)
\* longest node value (in characters) drawn for text / inlineCode / code
MaxLen == 2
\* deepest chain of nested container nodes drawn for the nesting cases
MaxDepth == 3
\* most rows of a drawn table
MaxRows == 3
\* calls of markdownToHtml made one after another in one process
MaxCalls == 3
\* children of one container node
MaxKids == 3
\* calls of generatePdfFromMarkdown in flight at the same time
NumCalls == 2
\* optional fields a caller of createFormattingRule supplies
MaxSupplied == 2

(***************************************************************************)
(* escapeHtml (pdfGenerator.ts:272-281)                                    *)
(***************************************************************************)
\* the map of escapeHtml: the replacement of one matched character
EscapeMap(m) ==
    CASE m = "&"  -> <<"&", "a", "m", "p", ";">>
      [] m = "<"  -> <<"&", "l", "t", ";">>
      [] m = ">"  -> <<"&", "g", "t", ";">>
      [] m = "\"" -> <<"&", "q", "u", "o", "t", ";">>
      [] m = "'"  -> <<"&", "#", "0", "3", "9", ";">>

\* a character class that forgets the apostrophe
EscapeRegex_NoApostrophe == {"&", "<", ">", "\""}

\* the character class of the regular expression /[&<>"']/g
EscapeRegex == {"&", "<", ">", "\"", "'"}

RECURSIVE escapeHtml(_)
\* text.replace(/[&<>"']/g, (m) => map[m]): one left-to-right pass; the
\* replacement text is not scanned again
escapeHtml(text) ==
    IF text = <<>> THEN <<>>
    ELSE (IF Head(text) \in EscapeRegex THEN EscapeMap(Head(text)) ELSE <<Head(text)>>)
         \o escapeHtml(Tail(text))

(***************************************************************************)
(* Default style values (drizzle/schema.ts:106-129) and the rule the       *)
(* tests and the converter router build (part_000:6-30, part_001:26-43).   *)
(***************************************************************************)
DEFAULT_HEADING_STYLES ==
    [h1 |-> [fontSize |-> 32, fontWeight |-> 900, marginTop |-> 24, marginBottom |-> 12],
     h2 |-> [fontSize |-> 24, fontWeight |-> 800, marginTop |-> 20, marginBottom |-> 10],
     h3 |-> [fontSize |-> 20, fontWeight |-> 700, marginTop |-> 16, marginBottom |-> 8],
     h4 |-> [fontSize |-> 16, fontWeight |-> 600, marginTop |-> 12, marginBottom |-> 6],
     h5 |-> [fontSize |-> 14, fontWeight |-> 600, marginTop |-> 10, marginBottom |-> 4],
     h6 |-> [fontSize |-> 12, fontWeight |-> 600, marginTop |-> 8, marginBottom |-> 4]]

DEFAULT_CODE_BLOCK_STYLES ==
    [fontFamily |-> <<"m", "o", "n", "o", "s", "p", "a", "c", "e">>,
     fontSize |-> 11,
     backgroundColor |-> <<"#", "f", "5", "f", "5", "f", "5">>,
     padding |-> 12,
     borderRadius |-> 4,
     lineHeight |-> <<"1", ".", "4">>]

DEFAULT_TABLE_STYLES ==
    [borderColor |-> <<"#", "d", "d", "d">>,
     headerBackgroundColor |-> <<"#", "f", "9", "f", "9", "f", "9">>,
     cellPadding |-> 8,
     fontSize |-> 11]

mockFormattingRule ==
    [fontFamily |-> <<"I", "n", "t", "e", "r">>,
     fontSize |-> 12,
     lineHeight |-> <<"1", ".", "5", "0">>,
     headingStyles |-> DEFAULT_HEADING_STYLES,
     pageSize |-> "A4",
     marginTop |-> 20,
     marginBottom |-> 20,
     marginLeft |-> 20,
     marginRight |-> 20,
     codeBlockStyles |-> DEFAULT_CODE_BLOCK_STYLES,
     tableStyles |-> DEFAULT_TABLE_STYLES,
     pageBreakBeforeHeadings |-> "h1",
     preventOrphanHeadings |-> 1,
     keepCodeBlocksTogether |-> 1]

(***************************************************************************)
(* JavaScript expression forms used by the renderer.  A property that is   *)
(* undefined or null is a field the record does not have.                  *)
(***************************************************************************)
\* `${n}` for a number n
Num(n) == <<ToString(n)>>

\* `${obj.f || d}` for a numeric property: 0 is falsy, like undefined
OrNum(obj, f, d) ==
    IF f \in DOMAIN obj /\ obj[f] # 0 THEN Num(obj[f]) ELSE Num(d)

\* `${obj.f || d}` for a string property: "" is falsy, like undefined;
\* d is the literal written in the source
OrStr(obj, f, d) ==
    IF f \in DOMAIN obj /\ obj[f] # <<>> THEN obj[f] ELSE <<d>>

\* { type: "root", children: node.children }
RootOf(node) ==
    IF "children" \in DOMAIN node
    THEN [type |-> "root", children |-> node.children]
    ELSE [type |-> "root"]

\* (rules.headingStyles as any)[`h${level}`] || {}
HeadingStyle(rules, level) ==
    LET key == "h" \o ToString(level)
    IN  IF key \in DOMAIN rules.headingStyles
        THEN rules.headingStyles[key]
        ELSE [x \in {} |-> 0]

\* the heading defaults written inline at pdfGenerator.ts:114
HeadingFontSizeDefault == 16
HeadingFontWeightDefault == 600
HeadingMarginTopDefault == 12
HeadingMarginBottomDefault == 6

\* header detection that forgets the row count
IsHeader_FirstRowAlways(rowIndex, length) == rowIndex = 0

\* rowIndex === 0 && node.children.length > 1
IsHeader(rowIndex, length) == rowIndex = 0 /\ length > 1

\* 20 + depth * 20
ListMargin(depth) == 20 + depth * 20

\* children of a list rendered at the depth of the list itself
ListChildDepth_NoIncrement(depth) == depth

\* the depth the children of a list are rendered with
ListChildDepth(depth) == depth + 1

(***************************************************************************)
(* astToHtml (pdfGenerator.ts:103-176)                                     *)
(***************************************************************************)
\* line 166: node.alt || ''
AltOf_Undefined(node) == IF "alt" \in DOMAIN node THEN node.alt ELSE <<"undefined">>

AltOf(node) == IF "alt" \in DOMAIN node THEN node.alt ELSE <<>>

RECURSIVE astToHtml(_, _, _)
RECURSIVE forEachChild(_, _, _)
RECURSIVE forEachCell(_, _, _, _, _)
RECURSIVE forEachRow(_, _, _, _, _)

\* a fallback that wraps what it does not know
Unhandled_Wrapped(childrenHtml) == <<"<div>">> \o childrenHtml \o <<"</div>">>

\* lines 169-173: a node of a type with no branch of its own contributes the
\* html its children added, and nothing else
Unhandled(childrenHtml) == childrenHtml

\* a fallback that emits the escaped value of a node it does not know
Childless_EmitsValue(node) ==
    IF "value" \in DOMAIN node THEN escapeHtml(node.value) ELSE <<>>

\* line 169: the last branch has no else, so a node of no handled type and
\* with no children leaves html as it was, ""
Childless(node) == <<>>

RECURSIVE forEachChild_Reversed(_, _, _)
\* a loop that prepends each child's html instead of appending it
forEachChild_Reversed(children, rules, depth) ==
    IF children = <<>> THEN <<>>
    ELSE forEachChild_Reversed(Tail(children), rules, depth)
         \o astToHtml(Head(children), rules, depth)

\* children.forEach((child) => { html += astToHtml(child, rules, depth) })
forEachChild(children, rules, depth) ==
    IF children = <<>> THEN <<>>
    ELSE astToHtml(Head(children), rules, depth)
         \o forEachChild(Tail(children), rules, depth)

\* row.children?.forEach((cell) => { tableHtml += `<${tag} ...>${cellContent}</${tag}>` })
forEachCell(cells, tag, tableStyle, rules, depth) ==
    IF cells = <<>> THEN <<>>
    ELSE LET cellContent == astToHtml(RootOf(Head(cells)), rules, depth)
         IN  <<"<", tag, " style=\"border: 1px solid ">>
             \o OrStr(tableStyle, "borderColor", "#ddd")
             \o <<"; padding: ">> \o OrNum(tableStyle, "cellPadding", 8)
             \o <<"px; font-size: ">> \o OrNum(tableStyle, "fontSize", 11)
             \o <<"px;\">">> \o cellContent \o <<"</", tag, ">">>
             \o forEachCell(Tail(cells), tag, tableStyle, rules, depth)

\* node.children?.forEach((row, rowIndex) => { ... }) over the rows from
\* rowIndex on; length is node.children.length
forEachRow(rows, rowIndex, length, rules, depth) ==
    IF rows = <<>> THEN <<>>
    ELSE LET tableStyle == rules.tableStyles
             row        == Head(rows)
             isHeader   == IsHeader(rowIndex, length)
             tag        == IF isHeader THEN "th" ELSE "td"
         IN  <<"<tr style=\"background-color: ">>
             \o (IF isHeader
                 THEN OrStr(tableStyle, "headerBackgroundColor", "#f9f9f9")
                 ELSE <<"white">>)
             \o <<";\">">>
             \o (IF "children" \in DOMAIN row
                 THEN forEachCell(row.children, tag, tableStyle, rules, depth)
                 ELSE <<>>)
             \o <<"</tr>">>
             \o forEachRow(Tail(rows), rowIndex + 1, length, rules, depth)

astToHtml(node, rules, depth) ==
    CASE node.type = "root" ->
           IF "children" \in DOMAIN node
           THEN forEachChild(node.children, rules, depth) ELSE <<>>
      [] node.type = "heading" ->
           LET level        == node.depth
               headingStyle == HeadingStyle(rules, level)
               content      == astToHtml(RootOf(node), rules, depth)
           IN  <<"<h", ToString(level), " style=\"font-size: ">>
               \o OrNum(headingStyle, "fontSize", HeadingFontSizeDefault)
               \o <<"px; font-weight: ">>
               \o OrNum(headingStyle, "fontWeight", HeadingFontWeightDefault)
               \o <<"; margin-top: ">>
               \o OrNum(headingStyle, "marginTop", HeadingMarginTopDefault)
               \o <<"px; margin-bottom: ">>
               \o OrNum(headingStyle, "marginBottom", HeadingMarginBottomDefault)
               \o <<"px;\">">> \o content \o <<"</h", ToString(level), ">">>
      [] node.type = "paragraph" ->
           <<"<p style=\"margin-bottom: 1em; line-height: ">> \o rules.lineHeight
           \o <<";\">">> \o astToHtml(RootOf(node), rules, depth) \o <<"</p>">>
      [] node.type = "text" -> escapeHtml(node.value)
      [] node.type = "emphasis" ->
           <<"<em>">> \o astToHtml(RootOf(node), rules, depth) \o <<"</em>">>
      [] node.type = "strong" ->
           <<"<strong>">> \o astToHtml(RootOf(node), rules, depth) \o <<"</strong>">>
      [] node.type = "inlineCode" ->
           LET codeStyle == rules.codeBlockStyles
           IN  <<"<code style=\"font-family: ">>
               \o OrStr(codeStyle, "fontFamily", "monospace")
               \o <<"; font-size: ">> \o OrNum(codeStyle, "fontSize", 11)
               \o <<"px; background-color: ">>
               \o OrStr(codeStyle, "backgroundColor", "#f5f5f5")
               \o <<"; padding: 2px 4px; border-radius: 3px;\">">>
               \o escapeHtml(node.value) \o <<"</code>">>
      [] node.type = "code" ->
           LET codeStyle == rules.codeBlockStyles
               content   == escapeHtml(node.value)
           IN  <<"<pre style=\"font-family: ">>
               \o OrStr(codeStyle, "fontFamily", "monospace")
               \o <<"; font-size: ">> \o OrNum(codeStyle, "fontSize", 11)
               \o <<"px; background-color: ">>
               \o OrStr(codeStyle, "backgroundColor", "#f5f5f5")
               \o <<"; padding: ">> \o OrNum(codeStyle, "padding", 12)
               \o <<"px; border-radius: ">> \o OrNum(codeStyle, "borderRadius", 4)
               \o <<"px; overflow-x: auto; line-height: ">>
               \o OrStr(codeStyle, "lineHeight", "1.4")
               \o <<";\"><code>">> \o content \o <<"</code></pre>">>
      [] node.type = "list" ->
           LET tag     == IF "ordered" \in DOMAIN node /\ node.ordered THEN "ol" ELSE "ul"
               content == astToHtml(RootOf(node), rules, ListChildDepth(depth))
           IN  <<"<", tag, " style=\"margin-left: ">> \o Num(ListMargin(depth))
               \o <<"px; margin-bottom: 1em;\">">> \o content \o <<"</", tag, ">">>
      [] node.type = "listItem" ->
           <<"<li>">> \o astToHtml(RootOf(node), rules, depth) \o <<"</li>">>
      [] node.type = "blockquote" ->
           <<"<blockquote style=\"border-left: 4px solid #ccc; padding-left: 12px; margin-left: 0; font-style: italic; color: #666;\">">>
           \o astToHtml(RootOf(node), rules, depth) \o <<"</blockquote>">>
      [] node.type = "table" ->
           LET tableStyle == rules.tableStyles
           IN  <<"<table style=\"border-collapse: collapse; width: 100%; margin-bottom: 1em; border: 1px solid ">>
               \o OrStr(tableStyle, "borderColor", "#ddd") \o <<";\"><tbody>">>
               \o (IF "children" \in DOMAIN node
                   THEN forEachRow(node.children, 0, Len(node.children), rules, depth)
                   ELSE <<>>)
               \o <<"</tbody></table>">>
      [] node.type = "link" ->
           <<"<a href=\"">> \o escapeHtml(node.url)
           \o <<"\" style=\"color: #0066cc; text-decoration: underline;\">">>
           \o astToHtml(RootOf(node), rules, depth) \o <<"</a>">>
      [] node.type = "image" ->
           <<"<img src=\"">> \o escapeHtml(node.url) \o <<"\" alt=\"">>
           \o escapeHtml(AltOf(node))
           \o <<"\" style=\"max-width: 100%; height: auto; margin: 1em 0;\" />">>
      [] node.type = "thematicBreak" ->
           <<"<hr style=\"border: none; border-top: 1px solid #ccc; margin: 2em 0;\" />">>
      [] OTHER ->
           IF "children" \in DOMAIN node
           THEN Unhandled(forEachChild(node.children, rules, depth)) ELSE Childless(node)

(***************************************************************************)
(* generateStyledHtml (pdfGenerator.ts:178-270)                            *)
(***************************************************************************)
\* a comparison that ignores the case of the first letter
PageSizeCss_AnyCase(rules) ==
    IF "pageSize" \in DOMAIN rules /\ rules.pageSize \in {"Letter", "letter"}
    THEN "8.5in 11in" ELSE "210mm 297mm"

\* rules.pageSize === "Letter" ? "8.5in 11in" : "210mm 297mm"
PageSizeCss(rules) ==
    IF "pageSize" \in DOMAIN rules /\ rules.pageSize = "Letter"
    THEN "8.5in 11in" ELSE "210mm 297mm"

\* the margins in the order top, bottom, left, right
PageMarginCss_WrongOrder(rules) ==
    Num(rules.marginTop) \o <<"mm", " ">> \o Num(rules.marginBottom) \o <<"mm", " ">>
    \o Num(rules.marginLeft) \o <<"mm", " ">> \o Num(rules.marginRight) \o <<"mm">>

\* `${marginTop} ${marginRight} ${marginBottom} ${marginLeft}` where each is
\* `${rules.margin...}mm`
PageMarginCss(rules) ==
    Num(rules.marginTop) \o <<"mm", " ">> \o Num(rules.marginRight) \o <<"mm", " ">>
    \o Num(rules.marginBottom) \o <<"mm", " ">> \o Num(rules.marginLeft) \o <<"mm">>

\* rules[f] is truthy, for the optional strings headerText and footerText
HasText(rules, f) == f \in DOMAIN rules /\ rules[f] # <<>>

\* ${rules.headerText ? `@top-center { content: "${escapeHtml(rules.headerText)}"; }` : ""}
MarginBox(rules, f, box) ==
    IF HasText(rules, f)
    THEN <<box \o " { content: \"">> \o escapeHtml(rules[f]) \o <<"\"; }">>
    ELSE <<>>

\* a style sheet in which a break before h2 implies one before h1
PageBreakBefore_Cumulative(rules, h) ==
    IF /\ "pageBreakBeforeHeadings" \in DOMAIN rules
       /\ (rules.pageBreakBeforeHeadings = h
           \/ (h = "h1" /\ rules.pageBreakBeforeHeadings = "h2"))
    THEN <<h \o " { page-break-before: always; }">>
    ELSE <<>>

\* ${rules.pageBreakBeforeHeadings === h ? "h { page-break-before: always; }" : ""}
PageBreakBefore(rules, h) ==
    IF "pageBreakBeforeHeadings" \in DOMAIN rules /\ rules.pageBreakBeforeHeadings = h
    THEN <<h \o " { page-break-before: always; }">>
    ELSE <<>>

\* ${rules.preventOrphanHeadings ? "h1, h2, h3 { ... }" : ""}
OrphanControl(rules) ==
    IF "preventOrphanHeadings" \in DOMAIN rules /\ rules.preventOrphanHeadings # 0
    THEN <<"h1, h2, h3 { page-break-after: avoid; orphans: 3; widows: 3; }">>
    ELSE <<>>

\* lines 222-224: the rule for pre, a fixed part of the template;
\* rules.keepCodeBlocksTogether is read nowhere
KeepTogether_ByFlag(rules) ==
    IF "keepCodeBlocksTogether" \in DOMAIN rules /\ rules.keepCodeBlocksTogether # 0
    THEN <<"    pre {\n      page-break-inside: avoid;\n    }\n\n">>
    ELSE <<>>

KeepTogether(rules) == <<"    pre {\n      page-break-inside: avoid;\n    }\n\n">>

generateStyledHtml(content, rules) ==
    <<"\n<!DOCTYPE html>\n<html lang=\"en\">\n<head>\n  <meta charset=\"UTF-8\">\n  <meta name=\"viewport\" content=\"width=device-width, initial-scale=1.0\">\n  <title>PDF Document</title>\n  <style>\n    * {\n      margin: 0;\n      padding: 0;\n      box-sizing: border-box;\n    }\n\n",
      "    @page {\n      size: ", PageSizeCss(rules), ";\n      margin: ">>
    \o PageMarginCss(rules) \o <<";\n      ">>
    \o MarginBox(rules, "headerText", "@top-center") \o <<"\n      ">>
    \o MarginBox(rules, "footerText", "@bottom-center") \o <<"\n    }\n\n",
      "    body {\n      font-family: '">> \o rules.fontFamily
    \o <<"', sans-serif;\n      font-size: ">> \o Num(rules.fontSize)
    \o <<"px;\n      line-height: ">> \o rules.lineHeight
    \o <<";\n      color: #333;\n    }\n\n",
         "    h1, h2, h3, h4, h5, h6 {\n      page-break-after: avoid;\n    }\n\n",
         "    ">> \o PageBreakBefore(rules, "h1") \o <<"\n    ">>
    \o PageBreakBefore(rules, "h2") \o <<"\n\n    ">>
    \o OrphanControl(rules) \o <<"\n\n">>
    \o KeepTogether(rules)
    \o <<"    table {\n      page-break-inside: avoid;\n    }\n\n",
         "    img {\n      page-break-inside: avoid;\n    }\n\n",
         "    p {\n      margin-bottom: 1em;\n    }\n\n    ul, ol {\n      margin-left: 20px;\n      margin-bottom: 1em;\n    }\n\n    blockquote {\n      border-left: 4px solid #ccc;\n      padding-left: 12px;\n      margin-left: 0;\n      font-style: italic;\n      color: #666;\n      margin-bottom: 1em;\n    }\n\n    code {\n      font-family: 'Courier New', monospace;\n      background-color: #f5f5f5;\n      padding: 2px 4px;\n      border-radius: 3px;\n    }\n\n    pre code {\n      padding: 0;\n      background-color: transparent;\n    }\n  </style>\n</head>\n",
         "<body>\n  ">> \o content \o <<"\n</body>\n</html>\n  ">>

(***************************************************************************)
(* markdownToHtml (pdfGenerator.ts:89-101).  The Markdown parser is an     *)
(* external library: a Markdown text is identified with the tree           *)
(* processor.parse returns for it.                                         *)
(***************************************************************************)
markdownToHtml(ast, rules) ==
    LET htmlContent == astToHtml(ast, rules, 0)
    IN  generateStyledHtml(htmlContent, rules)

(***************************************************************************)
(* Where rendering throws.  A style collection of the rule that is         *)
(* undefined makes the first property read on it a TypeError               *)
(* (pdfGenerator.ts:112, 128, 132, 145); the walk below visits the nodes   *)
(* astToHtml visits.                                                       *)
(***************************************************************************)
\* node.children, or no children at all
Kids(node) == IF "children" \in DOMAIN node THEN node.children ELSE <<>>

RECURSIVE Throws(_, _)
RECURSIVE AnyThrows(_, _)

\* some node of the sequence makes astToHtml throw
AnyThrows(nodes, rules) ==
    IF nodes = <<>> THEN FALSE
    ELSE Throws(Head(nodes), rules) \/ AnyThrows(Tail(nodes), rules)

\* astToHtml(node, rules, depth) throws
Throws(node, rules) ==
    LET kids == Kids(node)
    IN  CASE node.type = "heading" ->
               "headingStyles" \notin DOMAIN rules \/ AnyThrows(kids, rules)
          [] node.type \in {"inlineCode", "code"} ->
               "codeBlockStyles" \notin DOMAIN rules \/ "value" \notin DOMAIN node
          [] node.type = "text" -> "value" \notin DOMAIN node
          [] node.type = "table" ->
               "tableStyles" \notin DOMAIN rules
               \/ \E i \in 1..Len(kids) :
                    \E j \in 1..Len(Kids(kids[i])) :
                      AnyThrows(Kids(Kids(kids[i])[j]), rules)
          [] node.type = "link" -> "url" \notin DOMAIN node \/ AnyThrows(kids, rules)
          [] node.type = "image" -> "url" \notin DOMAIN node
          [] node.type = "thematicBreak" -> FALSE
          [] OTHER -> AnyThrows(kids, rules)

(***************************************************************************)
(* State.                                                                  *)
(*   ast, rules        the inputs of one call: the parsed Markdown and the *)
(*                     formatting rule                                     *)
(*   mpc               position in markdownToHtml                          *)
(*   htmlContent, html the body fragment and the complete document         *)
(*   env               process.env and the file system as the call sees    *)
(*                     them: BROWSER_WS_ENDPOINT set, CHROME_PATH set, the *)
(*                     candidate paths for which fs.existsSync is true     *)
(*   pc                position in generatePdfFromMarkdown                 *)
(*   executablePath    the local of that name ("" while undefined)         *)
(*   browser           how the engine was obtained: "none", "connected",   *)
(*                     "launched"                                          *)
(*   page              the page of the call in the print engine: "none",   *)
(*                     "blank" (newPage returned), "loaded" (setContent    *)
(*                     returned), "closed" (its engine was closed)         *)
(*   setContentCalls   the arguments of each page.setContent call          *)
(*   pdfCalls          the options of each page.pdf call                   *)
(*   pdfBuffer         what page.pdf returned (<<>> before)                *)
(*   thrown            the exception in flight out of the try block        *)
(*   outcome           how the promise of the call settled                 *)
(*   log               the external calls made so far, with their results  *)
(*   history           the calls of markdownToHtml that have completed in  *)
(*                     this process, oldest first: input and result        *)
(*   calls             the locals of each of the concurrent calls of       *)
(*                     generatePdfFromMarkdown                             *)
(*   handles           the engine handles connect or launch has returned,  *)
(*                     oldest first, each with the call it was returned to *)
(*   releases          the disconnect and close calls made, oldest first:  *)
(*                     the call that made it and the handle it was made on *)
(*   dbUrl             process.env.DATABASE_URL is set                     *)
(*   db                the module variable _db of db.ts: <<>> for null,    *)
(*                     <<k>> for the k-th drizzle instance created         *)
(*   getDbLog          one entry per call of getDb: what it read and       *)
(*                     what it returned                                    *)
(*   ownerOpenId       ENV.ownerOpenId                                     *)
(*   users             the rows of the users table                         *)
(*   statement         the insert ... on duplicate key update statement    *)
(*                     upsertUser has issued, <<>> before                  *)
(*   input, rpc, generateCalls, response                                   *)
(*                     the converter.generatePdf mutation: the input       *)
(*                     received, where the procedure is, the arguments of  *)
(*                     each generatePdfFromMarkdown call, what the client  *)
(*                     gets                                                *)
(*   markdown, pdfUrl, activeTab                                           *)
(*                     the three useState cells of the Converter page      *)
(*   authUser          whether useAuth() has a user                        *)
(*   mutation          the state of generatePdfMutation                    *)
(*   reads             the file contents FileReaders are still reading     *)
(*   cleared           Clear was pressed and Generate has not started a    *)
(*                     mutation since                                      *)
(*   request           the arguments of the call of createFormattingRule   *)
(*   formattingRules   the rows inserted into the table of that name,      *)
(*                     oldest first; a column that is null is a field the  *)
(*                     row does not have                                   *)
(*   dbResult          "pending", "returned", or the message of the error  *)
(*                     the call threw                                      *)
(***************************************************************************)
VARIABLES ast, rules, mpc, htmlContent, html,
          env, pc, executablePath, browser, page, setContentCalls, pdfCalls,
          pdfBuffer, thrown, outcome, log,
          history, calls, handles, releases,
          dbUrl, db, request, formattingRules, dbResult,
          getDbLog, ownerOpenId, users, statement,
          input, rpc, generateCalls, response,
          markdown, pdfUrl, activeTab, authUser, mutation, reads, cleared

renderVars == <<ast, rules, mpc, htmlContent, html>>
pipeVars == <<env, pc, executablePath, browser, page, setContentCalls, pdfCalls,
              pdfBuffer, thrown, outcome, log>>
concVars == <<calls, handles, releases>>
dbVars == <<dbUrl, db, request, formattingRules, dbResult,
            getDbLog, ownerOpenId, users, statement>>
routerVars == <<input, rpc, generateCalls, response>>
uiVars == <<markdown, pdfUrl, activeTab, authUser, mutation, reads, cleared>>
appVars == <<routerVars, uiVars>>
otherVars == <<history, concVars, dbVars, appVars>>
vars == <<ast, rules, mpc, htmlContent, html,
          env, pc, executablePath, browser, page, setContentCalls, pdfCalls,
          pdfBuffer, thrown, outcome, log,
          history, calls, handles, releases,
          dbUrl, db, request, formattingRules, dbResult,
          getDbLog, ownerOpenId, users, statement,
          input, rpc, generateCalls, response,
          markdown, pdfUrl, activeTab, authUser, mutation, reads, cleared>>

(***************************************************************************)
(* generatePdfFromMarkdown (pdfGenerator.ts:10-84)                         *)
(***************************************************************************)
\* the candidate list of pdfGenerator.ts:24-31 before .filter(Boolean)
ChromeCandidates ==
    <<"process.env.CHROME_PATH",
      "C:\\Program Files\\Google\\Chrome\\Application\\chrome.exe",
      "C:\\Program Files (x86)\\Google\\Chrome\\Application\\chrome.exe",
      "/usr/bin/google-chrome",
      "/usr/bin/chromium-browser",
      "/Applications/Google Chrome.app/Contents/MacOS/Google Chrome">>

\* [...].filter(Boolean): process.env.CHROME_PATH is dropped when unset
chromePaths(e) ==
    IF e.CHROME_PATH THEN ChromeCandidates ELSE Tail(ChromeCandidates)

RECURSIVE FirstExisting(_, _)
\* the for loop of pdfGenerator.ts:34-44: the first path that exists, "" when
\* none does (an exception of the check is caught and the loop continues)
FirstExisting(paths, existing) ==
    IF paths = <<>> THEN ""
    ELSE IF Head(paths) \in existing THEN Head(paths)
         ELSE FirstExisting(Tail(paths), existing)

\* the error an external call throws, named after the call
ErrorOf(op) == "error thrown by " \o op

ChromeNotFound ==
    "Chrome not found. Set BROWSER_WS_ENDPOINT or CHROME_PATH environment variable."

\* the PDF bytes the engine may return
Buffers == {<<37, 80, 68, 70>>, <<37, 80, 68, 70, 45>>}

\* Buffer.from(pdfBuffer): a new buffer with the same bytes
BufferFrom(b) == [i \in 1..Len(b) |-> b[i]]

Pending == [kind |-> "pending", value |-> <<>>, error |-> ""]
Resolved(v) == [kind |-> "resolved", value |-> v, error |-> ""]
Rejected(e) == [kind |-> "rejected", value |-> <<>>, error |-> e]

Logged(op, res) == Append(log, [op |-> op, res |-> res])

\* line 63: rules.pageSize === "Letter" ? "Letter" : "A4"
PdfFormat(r) == IF "pageSize" \in DOMAIN r /\ r.pageSize = "Letter" THEN "Letter" ELSE "A4"

\* options whose left and right margins have changed places
PdfOptions_SidesSwapped(r) ==
    [format |-> PdfFormat(r),
     margin |-> [top    |-> Num(r.marginTop) \o <<"mm">>,
                 bottom |-> Num(r.marginBottom) \o <<"mm">>,
                 left   |-> Num(r.marginRight) \o <<"mm">>,
                 right  |-> Num(r.marginLeft) \o <<"mm">>],
     printBackground |-> TRUE]

\* the options object passed to page.pdf (pdfGenerator.ts:65-74)
PdfOptions(r) ==
    [format |-> PdfFormat(r),
     margin |-> [top    |-> Num(r.marginTop) \o <<"mm">>,
                 bottom |-> Num(r.marginBottom) \o <<"mm">>,
                 left   |-> Num(r.marginLeft) \o <<"mm">>,
                 right  |-> Num(r.marginRight) \o <<"mm">>],
     printBackground |-> TRUE]

\* line 14: const html = await markdownToHtml(markdown, rules)
RenderHtml ==
    /\ pc = "markdownToHtml"
    /\ IF Throws(ast, rules)
       THEN /\ mpc' = "thrown"
            /\ outcome' = Rejected(ErrorOf("markdownToHtml"))
            /\ log' = Logged("markdownToHtml", "throw")
            /\ pc' = "done"
            /\ UNCHANGED <<htmlContent, html>>
       ELSE /\ htmlContent' = astToHtml(ast, rules, 0)
            /\ html' = markdownToHtml(ast, rules)
            /\ mpc' = "returned"
            /\ log' = Logged("markdownToHtml", "ok")
            /\ pc' = "acquire"
            /\ UNCHANGED outcome
    /\ UNCHANGED <<otherVars, ast, rules, env, executablePath, browser, page, setContentCalls,
                   pdfCalls, pdfBuffer, thrown>>

\* lines 20-21: browser = await puppeteer.connect({ browserWSEndpoint })
Connect ==
    /\ pc = "acquire"
    /\ env.BROWSER_WS_ENDPOINT
    /\ \/ /\ browser' = "connected"
          /\ log' = Logged("connect", "ok")
          /\ pc' = "newPage"
          /\ UNCHANGED outcome
       \/ /\ outcome' = Rejected(ErrorOf("connect"))
          /\ log' = Logged("connect", "throw")
          /\ pc' = "done"
          /\ UNCHANGED browser
    /\ UNCHANGED <<otherVars, renderVars, env, executablePath, page, setContentCalls, pdfCalls,
                   pdfBuffer, thrown>>

\* lines 22-50: the search for a local Chrome, and the failure when none exists
FindChrome ==
    /\ pc = "acquire"
    /\ ~env.BROWSER_WS_ENDPOINT
    /\ executablePath' = FirstExisting(chromePaths(env), env.existing)
    /\ IF executablePath' = ""
       THEN /\ outcome' = Rejected(ChromeNotFound)
            /\ pc' = "done"
       ELSE /\ pc' = "launch"
            /\ UNCHANGED outcome
    /\ UNCHANGED <<otherVars, renderVars, env, browser, page, setContentCalls, pdfCalls,
                   pdfBuffer, thrown, log>>

\* lines 52-56: browser = await puppeteer.launch({ executablePath, ... })
Launch ==
    /\ pc = "launch"
    /\ \/ /\ browser' = "launched"
          /\ log' = Logged("launch", "ok")
          /\ pc' = "newPage"
          /\ UNCHANGED outcome
       \/ /\ outcome' = Rejected(ErrorOf("launch"))
          /\ log' = Logged("launch", "throw")
          /\ pc' = "done"
          /\ UNCHANGED browser
    /\ UNCHANGED <<otherVars, renderVars, env, executablePath, page, setContentCalls, pdfCalls,
                   pdfBuffer, thrown>>

\* line 60, inside try: const page = await browser.newPage()
NewPage ==
    /\ pc = "newPage"
    /\ \/ /\ page' = "blank"
          /\ log' = Logged("newPage", "ok")
          /\ pc' = "setContent"
          /\ UNCHANGED thrown
       \/ /\ thrown' = ErrorOf("newPage")
          /\ log' = Logged("newPage", "throw")
          /\ pc' = "finally"
          /\ UNCHANGED page
    /\ UNCHANGED <<otherVars, renderVars, env, executablePath, browser, setContentCalls, pdfCalls,
                   pdfBuffer, outcome>>

\* SetContent without the try/finally around it: a throw leaves the call at once
SetContent_NoFinally ==
    /\ pc = "setContent"
    /\ setContentCalls' = Append(setContentCalls, [html |-> html, waitUntil |-> "networkidle0"])
    /\ \/ /\ page' = "loaded"
          /\ log' = Logged("setContent", "ok")
          /\ pc' = "pdf"
          /\ UNCHANGED outcome
       \/ /\ outcome' = Rejected(ErrorOf("setContent"))
          /\ log' = Logged("setContent", "throw")
          /\ pc' = "done"
          /\ UNCHANGED page
    /\ UNCHANGED <<otherVars, renderVars, env, executablePath, browser, pdfCalls, pdfBuffer, thrown>>

\* SetContent with its failure caught on the spot: page.pdf runs all the same
SetContent_ThenPdfAnyway ==
    /\ pc = "setContent"
    /\ setContentCalls' = Append(setContentCalls, [html |-> html, waitUntil |-> "networkidle0"])
    /\ \/ /\ page' = "loaded"
          /\ log' = Logged("setContent", "ok")
          /\ UNCHANGED thrown
       \/ /\ thrown' = ErrorOf("setContent")
          /\ log' = Logged("setContent", "throw")
          /\ UNCHANGED page
    /\ pc' = "pdf"
    /\ UNCHANGED <<otherVars, renderVars, env, executablePath, browser, pdfCalls, pdfBuffer, outcome>>

\* line 61, inside try: await page.setContent(html, { waitUntil: "networkidle0" })
SetContent ==
    /\ pc = "setContent"
    /\ setContentCalls' = Append(setContentCalls, [html |-> html, waitUntil |-> "networkidle0"])
    /\ \/ /\ page' = "loaded"
          /\ log' = Logged("setContent", "ok")
          /\ pc' = "pdf"
          /\ UNCHANGED thrown
       \/ /\ thrown' = ErrorOf("setContent")
          /\ log' = Logged("setContent", "throw")
          /\ pc' = "finally"
          /\ UNCHANGED page
    /\ UNCHANGED <<otherVars, renderVars, env, executablePath, browser, pdfCalls, pdfBuffer, outcome>>

\* lines 63-76, inside try: const pdfBuffer = await page.pdf({...}); the
\* return of line 76 waits for the finally block
Pdf ==
    /\ pc = "pdf"
    /\ pdfCalls' = Append(pdfCalls, PdfOptions(rules))
    /\ \/ /\ \E b \in Buffers : pdfBuffer' = b
          /\ log' = Logged("pdf", "ok")
          /\ UNCHANGED thrown
       \/ /\ thrown' = ErrorOf("pdf")
          /\ log' = Logged("pdf", "throw")
          /\ UNCHANGED pdfBuffer
    /\ pc' = "finally"
    /\ UNCHANGED <<otherVars, renderVars, env, executablePath, browser, page, setContentCalls, outcome>>

\* what the release does to the page the call opened.  disconnect() detaches
\* from an engine that keeps running, with its pages; close() ends the
\* engine and with it every page; a close() that throws may have done either.
Released(release, res, p) ==
    IF release = "close" /\ p # "none"
    THEN IF res = "ok" THEN {"closed"} ELSE {p, "closed"}
    ELSE {p}

\* a finally block that swallows the failure of the try block and returns
\* whatever buffer there is
Finally_SwallowError ==
    /\ pc = "finally"
    /\ LET release == IF env.BROWSER_WS_ENDPOINT THEN "disconnect" ELSE "close"
       IN  \/ /\ log' = Logged(release, "ok")
              /\ outcome' = Resolved(BufferFrom(pdfBuffer))
              /\ page' \in Released(release, "ok", page)
           \/ /\ log' = Logged(release, "throw")
              /\ outcome' = Rejected(ErrorOf(release))
              /\ page' \in Released(release, "throw", page)
    /\ pc' = "done"
    /\ UNCHANGED <<otherVars, renderVars, env, executablePath, browser, setContentCalls,
                   pdfCalls, pdfBuffer, thrown>>

\* lines 77-83: the finally block, then the completion of the call.  An
\* exception of the finally block replaces the completion of the try block.
Finally ==
    /\ pc = "finally"
    /\ LET release == IF env.BROWSER_WS_ENDPOINT THEN "disconnect" ELSE "close"
       IN  \/ /\ log' = Logged(release, "ok")
              /\ outcome' = IF thrown # "" THEN Rejected(thrown)
                            ELSE Resolved(BufferFrom(pdfBuffer))
              /\ page' \in Released(release, "ok", page)
           \/ /\ log' = Logged(release, "throw")
              /\ outcome' = Rejected(ErrorOf(release))
              /\ page' \in Released(release, "throw", page)
    /\ pc' = "done"
    /\ UNCHANGED <<otherVars, renderVars, env, executablePath, browser, setContentCalls,
                   pdfCalls, pdfBuffer, thrown>>

(***************************************************************************)
(* The two steps of markdownToHtml taken one at a time (lines 97 and 100). *)
(***************************************************************************)
\* a renderer that completes the table styles of the rule it was given
RenderAst_CompletesRule ==
    /\ mpc = "parsed"
    /\ pc = "idle"
    /\ IF Throws(ast, rules)
       THEN mpc' = "thrown" /\ UNCHANGED <<htmlContent, rules>>
       ELSE /\ mpc' = "rendered"
            /\ htmlContent' = astToHtml(ast, rules, 0)
            /\ rules' = [rules EXCEPT !.tableStyles = DEFAULT_TABLE_STYLES]
    /\ UNCHANGED <<otherVars, ast, html, pipeVars>>

\* line 97: const htmlContent = astToHtml(ast, rules)
RenderAst ==
    /\ mpc = "parsed"
    /\ pc = "idle"
    /\ IF Throws(ast, rules)
       THEN mpc' = "thrown" /\ UNCHANGED htmlContent
       ELSE mpc' = "rendered" /\ htmlContent' = astToHtml(ast, rules, 0)
    /\ UNCHANGED <<otherVars, ast, rules, html, pipeVars>>

\* a renderer that numbers its documents with a per-process counter
WrapDocument_Numbered ==
    /\ mpc = "rendered"
    /\ pc = "idle"
    /\ html' = generateStyledHtml(htmlContent, rules) \o <<ToString(Len(history))>>
    /\ mpc' = "returned"
    /\ UNCHANGED <<otherVars, ast, rules, htmlContent, pipeVars>>

\* line 100: return generateStyledHtml(htmlContent, rules)
WrapDocument ==
    /\ mpc = "rendered"
    /\ pc = "idle"
    /\ html' = generateStyledHtml(htmlContent, rules)
    /\ mpc' = "returned"
    /\ UNCHANGED <<otherVars, ast, rules, htmlContent, pipeVars>>

(***************************************************************************)
(* Inputs.                                                                 *)
(***************************************************************************)
\* the characters node values are drawn from: the five special characters
\* and two that occur inside their encodings
Chars == {"&", "<", ">", "\"", "'", "a", ";"}

Values == UNION {[1..n -> Chars] : n \in 0..MaxLen}

Txt(v) == [type |-> "text", value |-> v]
Root(children) == [type |-> "root", children |-> children]

\* a text, inlineCode or code node for every value
ValueCases ==
    {[ast |-> Root(<<[type |-> t, value |-> v]>>), rules |-> mockFormattingRule] :
        t \in {"text", "inlineCode", "code"}, v \in Values}

\* tables of 0..MaxRows rows and 1..2 cells a row, with and without table styles
Row(cells) ==
    [type |-> "tableRow",
     children |-> [j \in 1..cells |-> [type |-> "tableCell", children |-> <<Txt(<<"a">>)>>]]]
Table(rows, cells) == [type |-> "table", children |-> [i \in 1..rows |-> Row(cells)]]

TableCases ==
    {[ast |-> Root(<<Table(n, c)>>), rules |-> [mockFormattingRule EXCEPT !.tableStyles = ts]] :
        n \in 0..MaxRows, c \in 1..2,
        ts \in {DEFAULT_TABLE_STYLES, [x \in {} |-> 0]}}

\* chains of nested containers, at most MaxDepth deep
Wrap(kind, t) ==
    CASE kind = "ul"         -> [type |-> "list", ordered |-> FALSE, children |-> <<t>>]
      [] kind = "ol"         -> [type |-> "list", ordered |-> TRUE,
                                 children |-> <<[type |-> "listItem", children |-> <<t>>]>>]
      [] kind = "listItem"   -> [type |-> "listItem",
                                 children |-> <<[type |-> "paragraph", children |-> <<Txt(<<"a">>)>>], t>>]
      [] kind = "blockquote" -> [type |-> "blockquote", children |-> <<t>>]
      [] kind = "table"      -> [type |-> "table",
                                 children |-> <<[type |-> "tableRow",
                                                 children |-> <<[type |-> "tableCell", children |-> <<t>>]>>]>>]
      [] kind = "delete"     -> [type |-> "delete", children |-> <<t>>]
      [] kind = "siblings"   -> [type |-> "footnoteDefinition",
                                 children |-> <<t, [type |-> "list", ordered |-> FALSE, children |-> <<>>]>>]

Wrappers == {"ul", "ol", "listItem", "blockquote", "table", "delete", "siblings"}

RECURSIVE Nested(_)
Nested(d) ==
    IF d = 0 THEN {Txt(<<"a">>)}
    ELSE LET inner == Nested(d - 1)
         IN  inner \cup {Wrap(k, t) : k \in Wrappers, t \in inner}

NestingCases == {[ast |-> Root(<<t>>), rules |-> mockFormattingRule] : t \in Nested(MaxDepth)}

\* headings of every level, the entry of that level being complete, partial
\* (any subset of its four fields, each 0 or 18) or absent
FieldValues == {0, 18}
HeadingFields == {"fontSize", "fontWeight", "marginTop", "marginBottom"}
PartialStyles == UNION {[fs -> FieldValues] : fs \in SUBSET HeadingFields}
Levels == 1..6
Heading(level) == [type |-> "heading", depth |-> level, children |-> <<Txt(<<"a">>)>>]
Without(f, key) == [k \in DOMAIN f \ {key} |-> f[k]]

HeadingCases ==
    {[ast |-> Root(<<Heading(l)>>), rules |-> mockFormattingRule] : l \in Levels}
    \cup
    {[ast |-> Root(<<Heading(l)>>),
      rules |-> [mockFormattingRule EXCEPT
                   !.headingStyles = Without(DEFAULT_HEADING_STYLES, "h" \o ToString(l))]] :
        l \in Levels}
    \cup
    {[ast |-> Root(<<Heading(l)>>),
      rules |-> [mockFormattingRule EXCEPT
                   !.headingStyles = [DEFAULT_HEADING_STYLES EXCEPT !["h" \o ToString(l)] = st]]] :
        l \in Levels, st \in PartialStyles}

\* page geometry: every page size, unset included, and every choice of margins
PageSizes == {"Letter", "A4", "letter", "Legal", ""}
Margins == {0, 20, 25, 30}
WithPageSize(r, ps) == [r EXCEPT !.pageSize = ps]
Geometry(r, mt, mr, mb, ml) ==
    [r EXCEPT !.marginTop = mt, !.marginRight = mr, !.marginBottom = mb, !.marginLeft = ml]

PageCases ==
    {[ast |-> Root(<<Heading(1)>>), rules |-> Geometry(r, mt, mr, mb, ml)] :
        r \in {WithPageSize(mockFormattingRule, ps) : ps \in PageSizes}
              \cup {Without(mockFormattingRule, "pageSize")},
        mt \in Margins, mr \in Margins, mb \in Margins, ml \in Margins}

\* nodes of types astToHtml has no branch for: with 0..MaxLen children, with
\* no children field, and with a value instead of children
Leaves ==
    {Txt(<<"a">>), Txt(<<"<">>), [type |-> "inlineCode", value |-> <<";">>],
     [type |-> "emphasis", children |-> <<Txt(<<"&">>)>>]}
LeafSeqs == UNION {[1..n -> Leaves] : n \in 0..MaxLen}
UnhandledTypes == {"delete", "html", "break", "footnoteDefinition"}

UnhandledCases ==
    {[ast |-> Root(<<n>>), rules |-> mockFormattingRule] :
        n \in {[type |-> t, children |-> cs] : t \in UnhandledTypes, cs \in LeafSeqs}
              \cup {[type |-> t] : t \in UnhandledTypes}
              \cup {[type |-> t, value |-> <<"<", "a", ">">>] : t \in UnhandledTypes}}

\* rules with style configuration missing: any subset of the code-block and
\* table style fields, and each style collection absent altogether
Restrict(f, keys) == [k \in keys |-> f[k]]
CodeNodes == {[type |-> t, value |-> <<"a">>] : t \in {"inlineCode", "code"}}

MissingStyleCases ==
    {[ast |-> Root(<<n>>),
      rules |-> [mockFormattingRule EXCEPT
                   !.codeBlockStyles = Restrict(DEFAULT_CODE_BLOCK_STYLES, fs)]] :
        n \in CodeNodes, fs \in SUBSET DOMAIN DEFAULT_CODE_BLOCK_STYLES}
    \cup
    {[ast |-> Root(<<Table(2, 2)>>),
      rules |-> [mockFormattingRule EXCEPT
                   !.tableStyles = Restrict(DEFAULT_TABLE_STYLES, fs)]] :
        fs \in SUBSET DOMAIN DEFAULT_TABLE_STYLES}
    \cup
    {[ast |-> Root(<<n>>), rules |-> Without(mockFormattingRule, c)] :
        n \in CodeNodes \cup {Heading(1), Table(2, 1), Table(0, 1), Txt(<<"a">>)},
        c \in {"headingStyles", "codeBlockStyles", "tableStyles"}}

\* every kind of container with every sequence of 0..MaxKids children drawn
\* from three nodes whose texts tell them apart
Marked ==
    {Txt(<<"x">>), [type |-> "inlineCode", value |-> <<"y">>],
     [type |-> "strong", children |-> <<Txt(<<"z">>), Txt(<<"x">>)>>]}
MarkedSeqs == UNION {[1..n -> Marked] : n \in 0..MaxKids}
Cell(children) == [type |-> "tableCell", children |-> children]
Container(kind, cs) ==
    CASE kind = "heading" -> [type |-> "heading", depth |-> 2, children |-> cs]
      [] kind \in {"ul", "ol"} -> [type |-> "list", ordered |-> kind = "ol", children |-> cs]
      [] kind = "link" -> [type |-> "link", url |-> <<"a">>, children |-> cs]
      [] kind = "table" ->
           [type |-> "table",
            children |-> [i \in 1..Len(cs) |->
                            [type |-> "tableRow", children |-> <<Cell(<<cs[i]>>)>>]]]
      [] kind = "row" ->
           [type |-> "table",
            children |-> <<[type |-> "tableRow",
                            children |-> [j \in 1..Len(cs) |-> Cell(<<cs[j]>>)]]>>]
      [] kind = "cell" ->
           [type |-> "table",
            children |-> <<[type |-> "tableRow", children |-> <<Cell(cs)>>]>>]
      [] OTHER -> [type |-> kind, children |-> cs]

ContainerKinds ==
    {"root", "heading", "paragraph", "emphasis", "strong", "ul", "ol", "listItem",
     "blockquote", "table", "row", "cell", "link", "delete"}

OrderCases ==
    {[ast |-> Root(<<Container(k, cs)>>), rules |-> mockFormattingRule] :
        k \in ContainerKinds, cs \in MarkedSeqs}

\* pagination settings: every value of pageBreakBeforeHeadings the schema
\* allows, three it does not, and none; preventOrphanHeadings 0, 1, 2 and none
PageBreakSettings == {"none", "h1", "h2", "h3", "H1", ""}
OrphanSettings == {0, 1, 2}

PaginationCases ==
    {[ast |-> Root(<<Heading(1), Heading(2)>>), rules |-> r] :
        r \in UNION {{[q EXCEPT !.preventOrphanHeadings = o] : o \in OrphanSettings}
                      \cup {Without(q, "preventOrphanHeadings")} :
                     q \in {[mockFormattingRule EXCEPT !.pageBreakBeforeHeadings = b] :
                              b \in PageBreakSettings}
                           \cup {Without(mockFormattingRule, "pageBreakBeforeHeadings")}}}

\* header and footer texts: unset, empty, and every text of up to MaxLen
\* characters over a letter, the double quote, the less-than sign and the
\* line feed
HeaderChars == {"a", "\"", "<", "\n"}
HeaderTexts == UNION {[1..n -> HeaderChars] : n \in 0..MaxLen}
WithText(r, f, t) == [k \in DOMAIN r \cup {f} |-> IF k = f THEN t ELSE r[k]]

HeaderFooterCases ==
    {[ast |-> Root(<<Heading(1)>>), rules |-> r] :
        r \in {WithText(mockFormattingRule, f, t) : f \in {"headerText", "footerText"}, t \in HeaderTexts}
              \cup {WithText(WithText(mockFormattingRule, "headerText", t), "footerText", u) :
                      t \in HeaderTexts, u \in {<<>>, <<"a">>}}
              \cup {WithText(WithText(mockFormattingRule, "headerText", <<"a">>), "footerText", u) :
                      u \in HeaderTexts}}

\* links and images: every short URL and a javascript: URL, an image with
\* no alt text, with an empty one and with every short one
JavascriptUrl == <<"j", "a", "v", "a", "s", "c", "r", "i", "p", "t", ":", "a">>
UrlTexts == Values \cup {JavascriptUrl}
LinkImageCases ==
    {[ast |-> Root(<<n>>), rules |-> mockFormattingRule] :
        n \in {[type |-> "link", url |-> u, children |-> <<Txt(<<"a">>)>>] : u \in UrlTexts}
              \cup {[type |-> "image", url |-> u] : u \in UrlTexts}
              \cup {[type |-> "image", url |-> u, alt |-> <<"\"">>] : u \in UrlTexts}
              \cup {[type |-> "image", url |-> <<"a">>, alt |-> v] : v \in Values}}

\* rules whose strings hold a double quote, one string at a time, each with
\* a node whose element carries that string in its style attribute
QuotedTexts == {<<"\"">>, <<"1", "\"", ">">>}
RuleStringCases ==
    {[ast |-> Root(<<[type |-> "paragraph", children |-> <<Txt(<<"a">>)>>]>>),
      rules |-> [mockFormattingRule EXCEPT !.lineHeight = q]] : q \in QuotedTexts}
    \cup
    {[ast |-> Root(<<n>>),
      rules |-> [mockFormattingRule EXCEPT
                   !.codeBlockStyles = WithText(DEFAULT_CODE_BLOCK_STYLES, f, q)]] :
        n \in CodeNodes, f \in {"fontFamily", "backgroundColor"}, q \in QuotedTexts}
    \cup
    {[ast |-> Root(<<Table(2, 1)>>),
      rules |-> [mockFormattingRule EXCEPT
                   !.tableStyles = WithText(DEFAULT_TABLE_STYLES, f, q)]] :
        f \in {"borderColor", "headerBackgroundColor"}, q \in QuotedTexts}

RenderCases ==
    ValueCases \cup TableCases \cup NestingCases \cup HeadingCases \cup PageCases
    \cup UnhandledCases \cup MissingStyleCases \cup OrderCases \cup PaginationCases
    \cup HeaderFooterCases \cup LinkImageCases \cup RuleStringCases

\* the inputs of the pipeline: a document that renders under every page
\* geometry, and one whose rule lacks the code-block styles its code node needs
PipelineDoc == Root(<<Heading(1), [type |-> "paragraph", children |-> <<Txt(<<"a", "&">>)>>]>>)

\* margins as <<top, right, bottom, left>>: all alike, all different, and
\* one side apart from the rest
PipelineMargins == {<<20, 20, 20, 20>>, <<30, 15, 25, 10>>, <<30, 20, 20, 20>>, <<20, 20, 20, 0>>}

PipelineCases ==
    {[ast |-> PipelineDoc,
      rules |-> Geometry(WithPageSize(mockFormattingRule, ps), m[1], m[2], m[3], m[4])] :
        ps \in {"Letter", "A4", "Legal"}, m \in PipelineMargins}
    \cup
    {[ast |-> Root(<<[type |-> "code", value |-> <<"a">>]>>),
      rules |-> Without(mockFormattingRule, "codeBlockStyles")]}

\* process.env and the file system: BROWSER_WS_ENDPOINT set or not, and, when
\* it is not, CHROME_PATH set or not and any set of candidate paths existing
Envs ==
    {[BROWSER_WS_ENDPOINT |-> TRUE, CHROME_PATH |-> cp, existing |-> {}] : cp \in BOOLEAN}
    \cup
    UNION {{[BROWSER_WS_ENDPOINT |-> FALSE, CHROME_PATH |-> cp, existing |-> ex] :
              ex \in SUBSET {chromePaths([CHROME_PATH |-> cp])[i] :
                               i \in 1..Len(chromePaths([CHROME_PATH |-> cp]))}} :
           cp \in BOOLEAN}

PipeIdle ==
    /\ executablePath = ""
    /\ browser = "none"
    /\ page = "none"
    /\ setContentCalls = <<>>
    /\ pdfCalls = <<>>
    /\ pdfBuffer = <<>>
    /\ thrown = ""
    /\ outcome = Pending
    /\ log = <<>>

\* db.ts has been loaded and none of its functions called (line 6: let _db = null)
DbIdle ==
    /\ dbUrl = FALSE
    /\ db = <<>>
    /\ request = <<>>
    /\ formattingRules = <<>>
    /\ dbResult = "pending"
    /\ getDbLog = <<>>
    /\ ownerOpenId = ""
    /\ users = <<>>
    /\ statement = <<>>

\* no request has reached the converter router
RouterIdle ==
    /\ input = <<>>
    /\ rpc = "idle"
    /\ generateCalls = <<>>
    /\ response = <<>>

\* the Converter page is not mounted
UiIdle ==
    /\ markdown = <<>>
    /\ pdfUrl = <<>>
    /\ activeTab = "editor"
    /\ authUser = FALSE
    /\ mutation = "idle"
    /\ reads = {}
    /\ cleared = FALSE

AppIdle == RouterIdle /\ UiIdle

\* nothing but the call under study has run
OtherIdle ==
    /\ history = <<>>
    /\ calls = <<>>
    /\ handles = <<>>
    /\ releases = <<>>
    /\ DbIdle
    /\ AppIdle

(***************************************************************************)
(* Spec: one call of generatePdfFromMarkdown.                              *)
(***************************************************************************)
Init ==
    /\ \E c \in PipelineCases : ast = c.ast /\ rules = c.rules
    /\ mpc = "parsed"
    /\ htmlContent = <<>>
    /\ html = <<>>
    /\ env \in Envs
    /\ pc = "markdownToHtml"
    /\ PipeIdle
    /\ OtherIdle

Next ==
    \/ RenderHtml
    \/ Connect
    \/ FindChrome
    \/ Launch
    \/ NewPage
    \/ SetContent
    \/ Pdf
    \/ Finally

Spec == Init /\ [][Next]_vars

(***************************************************************************)
(* SpecRender: one call of markdownToHtml, over the rendering inputs.      *)
(***************************************************************************)
InitRender ==
    /\ \E c \in RenderCases : ast = c.ast /\ rules = c.rules
    /\ mpc = "parsed"
    /\ htmlContent = <<>>
    /\ html = <<>>
    /\ env = [BROWSER_WS_ENDPOINT |-> FALSE, CHROME_PATH |-> FALSE, existing |-> {}]
    /\ pc = "idle"
    /\ PipeIdle
    /\ OtherIdle

NextRender ==
    \/ RenderAst
    \/ WrapDocument

SpecRender == InitRender /\ [][NextRender]_vars

(***************************************************************************)
(* SpecCalls: up to MaxCalls calls of markdownToHtml, one after another in *)
(* the same process.  pdfGenerator.ts declares no module-level variable,   *)
(* so the only state a call finds is its two arguments; history records    *)
(* what the callers saw.                                                   *)
(***************************************************************************)
\* a heading, a code block, a table and an image: an element of each kind
\* the fixed print rules name
CodeDoc ==
    Root(<<Heading(1), [type |-> "code", value |-> <<"a">>],
           Table(1, 1),
           [type |-> "image", url |-> <<"a">>]>>)

CallCases ==
    {[ast |-> PipelineDoc, rules |-> WithPageSize(mockFormattingRule, ps)] : ps \in {"A4", "Letter"}}
    \cup
    {[ast |-> Root(<<Heading(2)>>), rules |-> mockFormattingRule],
     [ast |-> Root(<<[type |-> "code", value |-> <<"a">>]>>),
      rules |-> Without(mockFormattingRule, "codeBlockStyles")]}
    \cup
    {[ast |-> CodeDoc, rules |-> r] :
        r \in {[mockFormattingRule EXCEPT !.keepCodeBlocksTogether = k] : k \in {0, 1}}
              \cup {Without(mockFormattingRule, "keepCodeBlocksTogether")}}

\* what the caller of the current call got
Completion == [ast |-> ast, rules |-> rules, result |-> mpc, html |-> html]

\* the call returns or throws to its caller, and markdownToHtml is called again
ReturnAndCallAgain ==
    /\ mpc \in {"returned", "thrown"}
    /\ pc = "idle"
    /\ Len(history) + 1 < MaxCalls
    /\ history' = Append(history, Completion)
    /\ \E c \in CallCases : ast' = c.ast /\ rules' = c.rules
    /\ mpc' = "parsed"
    /\ htmlContent' = <<>>
    /\ html' = <<>>
    /\ UNCHANGED <<pipeVars, concVars, dbVars, appVars>>

InitCalls ==
    /\ \E c \in CallCases : ast = c.ast /\ rules = c.rules
    /\ mpc = "parsed"
    /\ htmlContent = <<>>
    /\ html = <<>>
    /\ env = [BROWSER_WS_ENDPOINT |-> FALSE, CHROME_PATH |-> FALSE, existing |-> {}]
    /\ pc = "idle"
    /\ PipeIdle
    /\ OtherIdle

NextCalls ==
    \/ RenderAst
    \/ WrapDocument
    \/ ReturnAndCallAgain

SpecCalls == InitCalls /\ [][NextCalls]_vars

(***************************************************************************)
(* SpecConcurrent: NumCalls calls of generatePdfFromMarkdown in flight in  *)
(* one process.  A call runs without interruption from one await to the    *)
(* next (lines 14, 21, 52, 60, 61, 65, 79, 81); between two awaits of one  *)
(* call any other call may run.  Every variable of the function is a local *)
(* of the call; the calls share process.env and the file system.           *)
(***************************************************************************)
CallIds == 1..NumCalls

\* the input of call c: calls next to each other get different documents
\* and rules
ConcurrentCase(c) ==
    IF c % 2 = 1
    THEN [ast |-> PipelineDoc, rules |-> mockFormattingRule]
    ELSE [ast |-> Root(<<Heading(2)>>),
          rules |-> Geometry(WithPageSize(mockFormattingRule, "Letter"), 30, 15, 25, 10)]

\* the bytes the engine prints for a loaded document: different documents
\* give different bytes
PdfOf(doc) ==
    IF \E i \in 1..Len(doc) : doc[i] = "8.5in 11in"
    THEN <<37, 80, 68, 70, 45>> ELSE <<37, 80, 68, 70>>

ConcurrentEnvs ==
    {[BROWSER_WS_ENDPOINT |-> TRUE, CHROME_PATH |-> FALSE, existing |-> {}],
     [BROWSER_WS_ENDPOINT |-> FALSE, CHROME_PATH |-> FALSE, existing |-> {"/usr/bin/google-chrome"}],
     [BROWSER_WS_ENDPOINT |-> FALSE, CHROME_PATH |-> FALSE, existing |-> {}]}

\* the locals of a call at its entry; browser is the index in handles of the
\* handle the call holds, 0 while it holds none
CallEntry(case) ==
    [ast |-> case.ast, rules |-> case.rules, pc |-> "markdownToHtml", html |-> <<>>,
     browser |-> 0, loaded |-> <<>>, options |-> <<>>, pdfBuffer |-> <<>>,
     thrown |-> "", outcome |-> Pending]

\* the locals of call c with the fields of upd assigned
Assign(c, upd) ==
    [calls EXCEPT ![c] = [k \in DOMAIN calls[c] |->
                            IF k \in DOMAIN upd THEN upd[k] ELSE calls[c][k]]]

\* line 14: const html = await markdownToHtml(markdown, rules)
CallRender(c) ==
    /\ calls[c].pc = "markdownToHtml"
    /\ IF Throws(calls[c].ast, calls[c].rules)
       THEN calls' = Assign(c, [pc |-> "done", outcome |-> Rejected(ErrorOf("markdownToHtml"))])
       ELSE calls' = Assign(c, [pc |-> "acquire",
                                html |-> markdownToHtml(calls[c].ast, calls[c].rules)])
    /\ UNCHANGED <<renderVars, pipeVars, appVars, history, dbVars, handles, releases>>

\* lines 17-57: connect to the endpoint, or find a local Chrome and launch it
CallAcquire(c) ==
    /\ calls[c].pc = "acquire"
    /\ IF ~env.BROWSER_WS_ENDPOINT /\ FirstExisting(chromePaths(env), env.existing) = ""
       THEN /\ calls' = Assign(c, [pc |-> "done", outcome |-> Rejected(ChromeNotFound)])
            /\ UNCHANGED handles
       ELSE LET op == IF env.BROWSER_WS_ENDPOINT THEN "connect" ELSE "launch"
            IN  \/ /\ handles' = Append(handles, c)
                   /\ calls' = Assign(c, [pc |-> "newPage", browser |-> Len(handles) + 1])
                \/ /\ calls' = Assign(c, [pc |-> "done", outcome |-> Rejected(ErrorOf(op))])
                   /\ UNCHANGED handles
    /\ UNCHANGED <<renderVars, pipeVars, appVars, history, dbVars, releases>>

\* line 60: const page = await browser.newPage()
CallNewPage(c) ==
    /\ calls[c].pc = "newPage"
    /\ \/ calls' = Assign(c, [pc |-> "setContent"])
       \/ calls' = Assign(c, [pc |-> "finally", thrown |-> ErrorOf("newPage")])
    /\ UNCHANGED <<renderVars, pipeVars, appVars, history, dbVars, handles, releases>>

\* line 61: await page.setContent(html, { waitUntil: "networkidle0" })
CallSetContent(c) ==
    /\ calls[c].pc = "setContent"
    /\ \/ calls' = Assign(c, [pc |-> "pdf", loaded |-> calls[c].html])
       \/ calls' = Assign(c, [pc |-> "finally", loaded |-> calls[c].html,
                                thrown |-> ErrorOf("setContent")])
    /\ UNCHANGED <<renderVars, pipeVars, appVars, history, dbVars, handles, releases>>

\* lines 63-76: const pdfBuffer = await page.pdf({...}); return Buffer.from(pdfBuffer)
CallPdf(c) ==
    /\ calls[c].pc = "pdf"
    /\ \/ calls' = Assign(c, [pc |-> "finally", options |-> <<PdfOptions(calls[c].rules)>>,
                                pdfBuffer |-> PdfOf(calls[c].loaded)])
       \/ calls' = Assign(c, [pc |-> "finally", options |-> <<PdfOptions(calls[c].rules)>>,
                                thrown |-> ErrorOf("pdf")])
    /\ UNCHANGED <<renderVars, pipeVars, appVars, history, dbVars, handles, releases>>

\* a finally block that releases the handle a module-level variable holds:
\* the one acquired last, by whichever call
CallFinally_SharedBrowser(c) ==
    /\ calls[c].pc = "finally"
    /\ releases' = Append(releases, [call |-> c, handle |-> Len(handles)])
    /\ LET release == IF env.BROWSER_WS_ENDPOINT THEN "disconnect" ELSE "close"
       IN  \/ calls' = Assign(c, [pc |-> "done",
                                   outcome |-> IF calls[c].thrown # ""
                                               THEN Rejected(calls[c].thrown)
                                               ELSE Resolved(BufferFrom(calls[c].pdfBuffer))])
           \/ calls' = Assign(c, [pc |-> "done", outcome |-> Rejected(ErrorOf(release))])
    /\ UNCHANGED <<renderVars, pipeVars, appVars, history, dbVars, handles>>

\* lines 77-83: the finally block releases the local browser, then the call
\* completes
CallFinally(c) ==
    /\ calls[c].pc = "finally"
    /\ releases' = Append(releases, [call |-> c, handle |-> calls[c].browser])
    /\ LET release == IF env.BROWSER_WS_ENDPOINT THEN "disconnect" ELSE "close"
       IN  \/ calls' = Assign(c, [pc |-> "done",
                                   outcome |-> IF calls[c].thrown # ""
                                               THEN Rejected(calls[c].thrown)
                                               ELSE Resolved(BufferFrom(calls[c].pdfBuffer))])
           \/ calls' = Assign(c, [pc |-> "done", outcome |-> Rejected(ErrorOf(release))])
    /\ UNCHANGED <<renderVars, pipeVars, appVars, history, dbVars, handles>>

InitConcurrent ==
    /\ ast = Root(<<>>)
    /\ rules = mockFormattingRule
    /\ mpc = "parsed"
    /\ htmlContent = <<>>
    /\ html = <<>>
    /\ env \in ConcurrentEnvs
    /\ pc = "idle"
    /\ PipeIdle
    /\ history = <<>>
    /\ calls = [c \in CallIds |-> CallEntry(ConcurrentCase(c))]
    /\ handles = <<>>
    /\ releases = <<>>
    /\ DbIdle
    /\ AppIdle

NextConcurrent ==
    \E c \in CallIds :
        \/ CallRender(c)
        \/ CallAcquire(c)
        \/ CallNewPage(c)
        \/ CallSetContent(c)
        \/ CallPdf(c)
        \/ CallFinally(c)

SpecConcurrent == InitConcurrent /\ [][NextConcurrent]_vars

(***************************************************************************)
(* createFormattingRule (db.ts:93-142), with the getDb it calls (6-19)     *)
(***************************************************************************)
\* data.f || d for the numbers, the texts, the enumerated strings and the
\* style objects; data.f ?? d for the two flags; data.f || null for the rest
NumberOr ==
    [fontSize |-> 12, marginTop |-> 20, marginBottom |-> 20, marginLeft |-> 20,
     marginRight |-> 20, isPreset |-> 0]
TextOr == [fontFamily |-> <<"Inter">>, lineHeight |-> <<"1.50">>]
WordOr == [pageSize |-> "A4", pageBreakBeforeHeadings |-> "h1"]
ObjectOr ==
    [headingStyles |-> DEFAULT_HEADING_STYLES,
     codeBlockStyles |-> DEFAULT_CODE_BLOCK_STYLES,
     tableStyles |-> DEFAULT_TABLE_STYLES]
NullishOr == [preventOrphanHeadings |-> 1, keepCodeBlocksTogether |-> 1]
TextOrNull == {"description", "headerText", "footerText"}

\* data.f is truthy: present, and not 0 or the empty string
Truthy(data, f) ==
    /\ f \in DOMAIN data
    /\ CASE f \in DOMAIN NumberOr -> data[f] # 0
         [] f \in DOMAIN TextOr \cup TextOrNull -> data[f] # <<>>
         [] f \in DOMAIN WordOr -> data[f] # ""
         [] OTHER -> TRUE

\* the right-hand side of data.f || d
OrDefault(f) ==
    CASE f \in DOMAIN NumberOr -> NumberOr[f]
      [] f \in DOMAIN TextOr -> TextOr[f]
      [] f \in DOMAIN WordOr -> WordOr[f]
      [] f \in DOMAIN ObjectOr -> ObjectOr[f]

\* lines 117-138: const rule = { userId, name: data.name, ... }
NewRule(userId, data) ==
    [f \in {"userId", "name"} \cup DOMAIN NumberOr \cup DOMAIN TextOr \cup DOMAIN WordOr
           \cup DOMAIN ObjectOr \cup DOMAIN NullishOr
           \cup {g \in TextOrNull : Truthy(data, g)} |->
        CASE f = "userId" -> userId
          [] f = "name" -> data.name
          [] f \in DOMAIN NullishOr -> IF f \in DOMAIN data THEN data[f] ELSE NullishOr[f]
          [] f \in TextOrNull -> data[f]
          [] OTHER -> IF Truthy(data, f) THEN data[f] ELSE OrDefault(f)]

\* line 10: getDb creates an instance when it holds none and DATABASE_URL is set
GetDbCreates_WheneverUrlSet(handle, url) == url

GetDbCreates(handle, url) == handle = <<>> /\ url

\* the instances created so far
Created == {i \in 1..Len(getDbLog) : getDbLog[i].created}

\* lines 9-19: one call of getDb; drizzle(url) returns a new instance or
\* throws, and the catch block stores null; the call returns _db
GetDbCall ==
    /\ IF GetDbCreates(db, dbUrl)
       THEN db' \in {<<Cardinality(Created) + 1>>, <<>>}
       ELSE db' = db
    /\ getDbLog' = Append(getDbLog, [url |-> dbUrl, attempted |-> GetDbCreates(db, dbUrl),
                                     created |-> GetDbCreates(db, dbUrl) /\ db' # <<>>,
                                     returned |-> db'])

\* lines 114-115 with getDb (6-19), then lines 140-141: the insert
createFormattingRule ==
    /\ dbResult = "pending"
    /\ GetDbCall
    /\ IF db' = <<>>
       THEN /\ dbResult' = "Database not available"
            /\ UNCHANGED formattingRules
       ELSE \/ /\ formattingRules' = Append(formattingRules, NewRule(request.userId, request.data))
               /\ dbResult' = "returned"
            \/ /\ dbResult' = ErrorOf("insert")
               /\ UNCHANGED formattingRules
    /\ UNCHANGED <<renderVars, pipeVars, appVars, history, concVars, dbUrl, request,
                   ownerOpenId, users, statement>>

\* the inputs: a name, and any MaxSupplied of the optional fields, each with
\* a falsy and with a truthy value
OptionalFields ==
    DOMAIN NumberOr \cup DOMAIN TextOr \cup DOMAIN WordOr \cup DOMAIN ObjectOr
    \cup DOMAIN NullishOr \cup TextOrNull

InputValues(f) ==
    CASE f \in DOMAIN NumberOr \cup DOMAIN NullishOr -> {0, 1}
      [] f \in DOMAIN TextOr \cup TextOrNull -> {<<>>, <<"a">>}
      [] f = "pageSize" -> {"", "Letter"}
      [] f = "pageBreakBeforeHeadings" -> {"", "none"}
      [] f \in DOMAIN ObjectOr -> {[x \in {} |-> 0], [fontSize |-> 1]}

RECURSIVE DataOver(_)
DataOver(fields) ==
    IF fields = {} THEN {[name |-> <<"a">>]}
    ELSE LET f == CHOOSE x \in fields : TRUE
         IN  {WithText(d, f, v) : d \in DataOver(fields \ {f}), v \in InputValues(f)}

\* the sets of at most n optional fields
RECURSIVE FieldChoices(_)
FieldChoices(n) ==
    IF n = 0 THEN {{}}
    ELSE LET fewer == FieldChoices(n - 1)
         IN  fewer \cup {fs \cup {f} : fs \in fewer, f \in OptionalFields}

DbRequests ==
    {[userId |-> u, data |-> d] : u \in {1, 2}, d \in UNION {DataOver(fs) : fs \in FieldChoices(MaxSupplied)}}

InitDb ==
    /\ ast = Root(<<>>)
    /\ rules = mockFormattingRule
    /\ mpc = "parsed"
    /\ htmlContent = <<>>
    /\ html = <<>>
    /\ env = [BROWSER_WS_ENDPOINT |-> FALSE, CHROME_PATH |-> FALSE, existing |-> {}]
    /\ pc = "idle"
    /\ PipeIdle
    /\ history = <<>>
    /\ calls = <<>>
    /\ handles = <<>>
    /\ releases = <<>>
    /\ dbUrl \in BOOLEAN
    /\ db = <<>>
    /\ request \in DbRequests
    /\ formattingRules = <<>>
    /\ dbResult = "pending"
    /\ getDbLog = <<>>
    /\ ownerOpenId = ""
    /\ users = <<>>
    /\ statement = <<>>
    /\ AppIdle

NextDb == createFormattingRule

SpecDb == InitDb /\ [][NextDb]_vars

(***************************************************************************)
(* upsertUser (db.ts:21-78)                                                *)
(*                                                                         *)
(* A user is a record with the members the caller passed; a member left    *)
(* undefined is absent.  The nullable texts are <<>> for null and <<t>>    *)
(* for the string t; a date is a number.                                   *)
(***************************************************************************)
\* line 38
textFields == {"name", "email", "loginMethod"}

\* new Date() at lines 64 and 68
Now == 9

\* lines 55-61: the role the call writes, <<>> when it writes none
RoleWritten(user, owner) ==
    IF "role" \in DOMAIN user THEN <<user.role>>
    ELSE IF user.openId = owner THEN <<"admin">>
    ELSE <<>>

\* lines 33-35, 41-65: the values of the insert
InsertValues(user, owner) ==
    [f \in {"openId", "lastSignedIn"} \cup (textFields \cap DOMAIN user)
           \cup {g \in {"role"} : RoleWritten(user, owner) # <<>>} |->
        CASE f = "openId" -> user.openId
          [] f = "lastSignedIn" -> IF "lastSignedIn" \in DOMAIN user THEN user.lastSignedIn ELSE Now
          [] f = "role" -> RoleWritten(user, owner)[1]
          [] OTHER -> user[f]]

\* the assignments to updateSet at lines 45, 53, 56 and 60
Assigned(user, owner) ==
    [f \in ((textFields \cup {"lastSignedIn"}) \cap DOMAIN user)
           \cup {g \in {"role"} : RoleWritten(user, owner) # <<>>} |->
        IF f = "role" THEN RoleWritten(user, owner)[1] ELSE user[f]]

\* lines 36, 41-61, 67-69: the set of the on-duplicate-key update
UpdateSet_RoleOnlyWhenGiven(user, owner) ==
    LET set == Restrict(Assigned(user, owner),
                        DOMAIN Assigned(user, owner) \ {g \in {"role"} : "role" \notin DOMAIN user})
    IN  IF DOMAIN set = {} THEN [lastSignedIn |-> Now] ELSE set

UpdateSet(user, owner) ==
    IF DOMAIN Assigned(user, owner) = {} THEN [lastSignedIn |-> Now] ELSE Assigned(user, owner)

\* schema.ts:15-22: the row an insert stores, with the column defaults
NewUser(values) ==
    [f \in {"openId", "name", "email", "loginMethod", "role", "lastSignedIn"} |->
        IF f \in DOMAIN values THEN values[f]
        ELSE IF f = "role" THEN "user" ELSE <<>>]

\* lines 71-73: insert(users).values(values).onDuplicateKeyUpdate({set}):
\* openId is unique, so the row with this openId is updated when there is one
OnDuplicateKeyUpdate(table, values, set) ==
    IF \E i \in 1..Len(table) : table[i].openId = values.openId
    THEN [i \in 1..Len(table) |->
            IF table[i].openId = values.openId
            THEN [f \in DOMAIN table[i] |-> IF f \in DOMAIN set THEN set[f] ELSE table[i][f]]
            ELSE table[i]]
    ELSE Append(table, NewUser(values))

\* lines 22-24
OpenIdMissing(user) == "openId" \notin DOMAIN user \/ user.openId = ""

\* lines 21-78
upsertUser ==
    /\ dbResult = "pending"
    /\ IF OpenIdMissing(request)
       THEN /\ dbResult' = "User openId is required for upsert"
            /\ UNCHANGED <<db, getDbLog, users, statement>>
       ELSE /\ GetDbCall
            /\ IF db' = <<>>
               THEN /\ dbResult' = "returned"
                    /\ UNCHANGED <<users, statement>>
               ELSE /\ statement' = [values |-> InsertValues(request, ownerOpenId),
                                     set |-> UpdateSet(request, ownerOpenId)]
                    /\ \/ /\ users' = OnDuplicateKeyUpdate(users, statement'.values, statement'.set)
                          /\ dbResult' = "returned"
                       \/ /\ dbResult' = ErrorOf("insert")
                          /\ UNCHANGED users
    /\ UNCHANGED <<renderVars, pipeVars, appVars, history, concVars, dbUrl, request, formattingRules,
                   ownerOpenId>>

\* the callers' users: with and without an openId, the owner's and another,
\* each other member given or left out, a nullable text also given as null
OpenIds == {"owner", "u1"}
Roles == {"user", "admin"}
UserMembers ==
    [openId |-> OpenIds \cup {""}, name |-> {<<>>, <<"a">>}, email |-> {<<"e">>},
     loginMethod |-> {<<"m">>}, lastSignedIn |-> {5}, role |-> Roles]

RECURSIVE UsersOver(_)
UsersOver(fields) ==
    IF fields = {} THEN {[x \in {} |-> 0]}
    ELSE LET f == CHOOSE x \in fields : TRUE
             rest == UsersOver(fields \ {f})
         IN  rest \cup {WithText(u, f, v) : u \in rest, v \in UserMembers[f]}

UserInputs == UsersOver(DOMAIN UserMembers)

\* the table before the call: empty, or holding one row
StoredUsers ==
    {<<>>} \cup {<<NewUser([openId |-> o, role |-> r, lastSignedIn |-> 1])>> : o \in OpenIds, r \in Roles}

InitUsers ==
    /\ ast = Root(<<>>)
    /\ rules = mockFormattingRule
    /\ mpc = "parsed"
    /\ htmlContent = <<>>
    /\ html = <<>>
    /\ env = [BROWSER_WS_ENDPOINT |-> FALSE, CHROME_PATH |-> FALSE, existing |-> {}]
    /\ pc = "idle"
    /\ PipeIdle
    /\ history = <<>>
    /\ calls = <<>>
    /\ handles = <<>>
    /\ releases = <<>>
    /\ dbUrl \in BOOLEAN
    /\ db = <<>>
    /\ request \in UserInputs
    /\ formattingRules = <<>>
    /\ dbResult = "pending"
    /\ getDbLog = <<>>
    /\ ownerOpenId \in {"owner", ""}
    /\ users \in StoredUsers
    /\ statement = <<>>
    /\ AppIdle

NextUsers == upsertUser

SpecUsers == InitUsers /\ [][NextUsers]_vars

(***************************************************************************)
(* getDb (db.ts:6-19), called any number of times.  DATABASE_URL may be    *)
(* set from the start or become set between two calls.                     *)
(***************************************************************************)
MaxGetDbCalls == 8

\* lines 9-19
getDb ==
    /\ Len(getDbLog) < MaxGetDbCalls
    /\ GetDbCall
    /\ UNCHANGED <<renderVars, pipeVars, appVars, history, concVars, dbUrl, request, formattingRules,
                   dbResult, ownerOpenId, users, statement>>

\* process.env.DATABASE_URL, read at line 10, becomes set
SetDatabaseUrl ==
    /\ ~dbUrl
    /\ dbUrl' = TRUE
    /\ UNCHANGED <<renderVars, pipeVars, appVars, history, concVars, db, request, formattingRules,
                   dbResult, getDbLog, ownerOpenId, users, statement>>

InitGetDb ==
    /\ ast = Root(<<>>)
    /\ rules = mockFormattingRule
    /\ mpc = "parsed"
    /\ htmlContent = <<>>
    /\ html = <<>>
    /\ env = [BROWSER_WS_ENDPOINT |-> FALSE, CHROME_PATH |-> FALSE, existing |-> {}]
    /\ pc = "idle"
    /\ PipeIdle
    /\ history = <<>>
    /\ calls = <<>>
    /\ handles = <<>>
    /\ releases = <<>>
    /\ DbIdle
    /\ AppIdle

NextGetDb ==
    \/ getDb
    \/ SetDatabaseUrl

SpecGetDb == InitGetDb /\ [][NextGetDb]_vars

(***************************************************************************)
(* converter.generatePdf (part_001:6-64).  The procedure validates its     *)
(* input, builds a formatting rule and awaits generatePdfFromMarkdown,     *)
(* whose steps are the actions of Spec.  A number with a fraction is       *)
(* written as its decimal digits.                                          *)
(***************************************************************************)
\* Markdown texts and the tree the parser returns for each
MarkdownTexts ==
    {[text |-> <<>>, ast |-> Root(<<>>)],
     [text |-> <<" ">>, ast |-> Root(<<>>)],
     [text |-> <<"a">>, ast |-> Root(<<[type |-> "paragraph", children |-> <<Txt(<<"a">>)>>]>>)],
     [text |-> <<"#", " ", "a">>,
      ast |-> Root(<<[type |-> "heading", depth |-> 1, children |-> <<Txt(<<"a">>)>>]>>)]}

Parse(text) == (CHOOSE m \in MarkdownTexts : m.text = text).ast

\* lines 11-18: the defaults of the schema
InputDefaults ==
    [fontFamily |-> <<"I", "n", "t", "e", "r">>, fontSize |-> 12, lineHeight |-> <<"1", ".", "5">>,
     pageSize |-> "A4", marginTop |-> 20, marginBottom |-> 20, marginLeft |-> 20,
     marginRight |-> 20]

\* line 10: z.string().min(1, ...)
MarkdownAccepted(text) == Len(text) >= 1

\* lines 9-19: the parsed input, each omitted option at its default
Parsed(in) ==
    [f \in {"markdown"} \cup DOMAIN InputDefaults |->
        IF f \in DOMAIN in THEN in[f] ELSE InputDefaults[f]]

\* lines 26-43: the rule built from the input; headerText and footerText are null
FormattingRuleOf(in) ==
    [fontFamily |-> in.fontFamily, fontSize |-> in.fontSize, lineHeight |-> in.lineHeight,
     headingStyles |-> DEFAULT_HEADING_STYLES, pageSize |-> in.pageSize,
     marginTop |-> in.marginTop, marginBottom |-> in.marginBottom,
     marginLeft |-> in.marginLeft, marginRight |-> in.marginRight,
     codeBlockStyles |-> DEFAULT_CODE_BLOCK_STYLES, tableStyles |-> DEFAULT_TABLE_STYLES,
     pageBreakBeforeHeadings |-> "h1", preventOrphanHeadings |-> 1,
     keepCodeBlocksTogether |-> 1]

\* Buffer.toString("base64"), line 49
Base64Alphabet ==
    <<"A", "B", "C", "D", "E", "F", "G", "H", "I", "J", "K", "L", "M", "N", "O", "P",
      "Q", "R", "S", "T", "U", "V", "W", "X", "Y", "Z", "a", "b", "c", "d", "e", "f",
      "g", "h", "i", "j", "k", "l", "m", "n", "o", "p", "q", "r", "s", "t", "u", "v",
      "w", "x", "y", "z", "0", "1", "2", "3", "4", "5", "6", "7", "8", "9", "+", "/">>

RECURSIVE Base64(_)
Base64(bytes) ==
    IF bytes = <<>> THEN <<>>
    ELSE LET n  == Len(bytes)
             b1 == bytes[1]
             b2 == IF n >= 2 THEN bytes[2] ELSE 0
             b3 == IF n >= 3 THEN bytes[3] ELSE 0
         IN  <<Base64Alphabet[(b1 \div 4) + 1],
               Base64Alphabet[((b1 % 4) * 16 + (b2 \div 16)) + 1],
               IF n >= 2 THEN Base64Alphabet[((b2 % 16) * 4 + (b3 \div 64)) + 1] ELSE "=",
               IF n >= 3 THEN Base64Alphabet[(b3 % 64) + 1] ELSE "=">>
             \o (IF n > 3 THEN Base64(SubSeq(bytes, 4, n)) ELSE <<>>)

\* line 49: `data:application/pdf;base64,${pdfBuffer.toString("base64")}`
PdfDataUrl(buffer) == <<"data:application/pdf;base64,">> \o Base64(buffer)

\* Date.now() - startTime, lines 22 and 51, in milliseconds
MaxElapsed == 1

\* lines 8-20: the input is validated before the resolver runs
ParseInput ==
    /\ rpc = "received"
    /\ IF MarkdownAccepted(input.markdown)
       THEN /\ rpc' = "resolver"
            /\ input' = Parsed(input)
            /\ UNCHANGED response
       ELSE /\ rpc' = "done"
            /\ response' = [error |-> "Markdown content is required"]
            /\ UNCHANGED input
    /\ UNCHANGED <<renderVars, pipeVars, history, concVars, dbVars, generateCalls, uiVars>>

\* lines 21-46: the resolver builds the rule and calls generatePdfFromMarkdown
generatePdf ==
    /\ rpc = "resolver"
    /\ generateCalls' = Append(generateCalls,
                               [markdown |-> input.markdown, rules |-> FormattingRuleOf(input)])
    /\ ast' = Parse(input.markdown)
    /\ rules' = FormattingRuleOf(input)
    /\ pc' = "markdownToHtml"
    /\ rpc' = "awaiting"
    /\ UNCHANGED <<mpc, htmlContent, html, env, executablePath, browser, page, setContentCalls,
                   pdfCalls, pdfBuffer, thrown, outcome, log, history, concVars, dbVars,
                   input, response, uiVars>>

\* a resolver whose catch block answers instead of rethrowing
generatePdfSettled_AnswersFailure ==
    /\ rpc = "awaiting"
    /\ pc = "done"
    /\ IF outcome.kind = "resolved"
       THEN \E ms \in 0..MaxElapsed :
               response' = [success |-> TRUE, pdfUrl |-> PdfDataUrl(outcome.value),
                            generationTimeMs |-> ms]
       ELSE response' = [success |-> FALSE]
    /\ rpc' = "done"
    /\ UNCHANGED <<renderVars, pipeVars, history, concVars, dbVars, input, generateCalls, uiVars>>

\* lines 46-62: the call has settled; the resolver returns the result, or
\* its catch block logs the error and throws it again
generatePdfSettled ==
    /\ rpc = "awaiting"
    /\ pc = "done"
    /\ IF outcome.kind = "resolved"
       THEN \E ms \in 0..MaxElapsed :
               response' = [success |-> TRUE, pdfUrl |-> PdfDataUrl(outcome.value),
                            generationTimeMs |-> ms]
       ELSE response' = [error |-> outcome.error]
    /\ rpc' = "done"
    /\ UNCHANGED <<renderVars, pipeVars, history, concVars, dbVars, input, generateCalls, uiVars>>

\* the inputs: each Markdown text, with no option and with some options given
RouterOptions ==
    {[x \in {} |-> 0], [pageSize |-> "Letter"], [marginTop |-> 30, lineHeight |-> <<"2">>],
     [fontFamily |-> <<"A">>, fontSize |-> 10]}

RouterInputs ==
    {[f \in {"markdown"} \cup DOMAIN o |-> IF f = "markdown" THEN m.text ELSE o[f]] :
        m \in MarkdownTexts, o \in RouterOptions}

InitRouter ==
    /\ ast = Root(<<>>)
    /\ rules = mockFormattingRule
    /\ mpc = "parsed"
    /\ htmlContent = <<>>
    /\ html = <<>>
    /\ env \in ConcurrentEnvs
    /\ pc = "idle"
    /\ PipeIdle
    /\ history = <<>>
    /\ calls = <<>>
    /\ handles = <<>>
    /\ releases = <<>>
    /\ DbIdle
    /\ input \in RouterInputs
    /\ rpc = "received"
    /\ generateCalls = <<>>
    /\ response = <<>>
    /\ UiIdle

NextRouter ==
    \/ ParseInput
    \/ generatePdf
    \/ RenderHtml
    \/ Connect
    \/ FindChrome
    \/ Launch
    \/ NewPage
    \/ SetContent
    \/ Pdf
    \/ Finally
    \/ generatePdfSettled

SpecRouter == InitRouter /\ [][NextRouter]_vars

(***************************************************************************)
(* The Converter page (part_002:10-79, with the enabling conditions of     *)
(* its controls at lines 92, 108 and 141).  Each handler runs to its end   *)
(* before the next event; the mutation and each FileReader complete at     *)
(* any later moment.  The editor's controls exist while the editor tab is  *)
(* shown; null is <<>>.                                                    *)
(***************************************************************************)
\* what the user types or uploads
EditorTexts == {<<>>, <<"a">>, <<"b">>}

\* the data URLs the server may answer with
ServedUrls == {PdfDataUrl(b) : b \in Buffers}

\* line 156: the textarea's onChange
Edit ==
    /\ activeTab = "editor"
    /\ \E v \in EditorTexts : markdown' = v
    /\ UNCHANGED <<renderVars, pipeVars, history, concVars, dbVars, routerVars,
                   pdfUrl, activeTab, authUser, mutation, reads, cleared>>

\* lines 62-73: a file was chosen, and a FileReader starts reading it
handleFileUpload ==
    /\ activeTab = "editor"
    /\ \E content \in EditorTexts : reads' = reads \cup {content}
    /\ UNCHANGED <<renderVars, pipeVars, history, concVars, dbVars, routerVars,
                   markdown, pdfUrl, activeTab, authUser, mutation, cleared>>

\* lines 67-71: reader.onload
ReaderOnload ==
    /\ \E content \in reads :
          /\ markdown' = content
          /\ reads' = reads \ {content}
    /\ UNCHANGED <<renderVars, pipeVars, history, concVars, dbVars, routerVars,
                   pdfUrl, activeTab, authUser, mutation, cleared>>

\* lines 28-45, behind the button of lines 90-96, which is disabled while
\* markdown is empty or the mutation is pending
handleGeneratePDF ==
    /\ markdown # <<>>
    /\ mutation # "pending"
    /\ IF ~authUser
       THEN UNCHANGED <<mutation, cleared>>
       ELSE mutation' = "pending" /\ cleared' = FALSE
    /\ UNCHANGED <<renderVars, pipeVars, history, concVars, dbVars, routerVars,
                   markdown, pdfUrl, activeTab, authUser, reads>>

\* lines 17-21: onSuccess
MutationSuccess ==
    /\ mutation = "pending"
    /\ \E url \in ServedUrls : pdfUrl' = url
    /\ activeTab' = "preview"
    /\ mutation' = "success"
    /\ UNCHANGED <<renderVars, pipeVars, history, concVars, dbVars, routerVars,
                   markdown, authUser, reads, cleared>>

\* lines 22-25: onError
MutationError ==
    /\ mutation = "pending"
    /\ mutation' = "error"
    /\ UNCHANGED <<renderVars, pipeVars, history, concVars, dbVars, routerVars,
                   markdown, pdfUrl, activeTab, authUser, reads, cleared>>

\* lines 75-79, behind the button of lines 138-146, which is disabled while
\* markdown is empty
handleClear ==
    /\ activeTab = "editor"
    /\ markdown # <<>>
    /\ markdown' = <<>>
    /\ pdfUrl' = <<>>
    /\ cleared' = TRUE
    /\ UNCHANGED <<renderVars, pipeVars, history, concVars, dbVars, routerVars,
                   activeTab, authUser, mutation, reads>>

\* lines 105-111: the user selects a tab; the preview trigger is disabled
\* while pdfUrl is null
SelectTab ==
    /\ \E tab \in {"editor", "preview"} :
          /\ tab = "preview" => pdfUrl # <<>>
          /\ tab # activeTab
          /\ activeTab' = tab
    /\ UNCHANGED <<renderVars, pipeVars, history, concVars, dbVars, routerVars,
                   markdown, pdfUrl, authUser, mutation, reads, cleared>>

InitConverter ==
    /\ ast = Root(<<>>)
    /\ rules = mockFormattingRule
    /\ mpc = "parsed"
    /\ htmlContent = <<>>
    /\ html = <<>>
    /\ env = [BROWSER_WS_ENDPOINT |-> FALSE, CHROME_PATH |-> FALSE, existing |-> {}]
    /\ pc = "idle"
    /\ PipeIdle
    /\ history = <<>>
    /\ calls = <<>>
    /\ handles = <<>>
    /\ releases = <<>>
    /\ DbIdle
    /\ RouterIdle
    /\ markdown = <<>>
    /\ pdfUrl = <<>>
    /\ activeTab = "editor"
    /\ authUser \in BOOLEAN
    /\ mutation = "idle"
    /\ reads = {}
    /\ cleared = FALSE

NextConverter ==
    \/ Edit
    \/ handleFileUpload
    \/ ReaderOnload
    \/ handleGeneratePDF
    \/ MutationSuccess
    \/ MutationError
    \/ handleClear
    \/ SelectTab

SpecConverter == InitConverter /\ [][NextConverter]_vars

(***************************************************************************)
(* Claims about generatePdfFromMarkdown, checked under Spec.               *)
(***************************************************************************)
\* how often the external call op was made
Count(op) == Cardinality({i \in 1..Len(log) : log[i].op = op})

\* the call op was made and threw
Threw(op) == \E i \in 1..Len(log) : log[i] = [op |-> op, res |-> "throw"]

\* the call has completed: its promise is settled
Settled == outcome.kind # "pending"

\* C1: once an engine has been acquired it is released on every exit path:
\* when the call has settled, disconnect has been called exactly once if the
\* engine was connected through BROWSER_WS_ENDPOINT and never otherwise, close
\* exactly once if it was launched locally and never otherwise; the engine is
\* connected exactly when BROWSER_WS_ENDPOINT is set; nothing is released
\* before an engine exists.
C1_ReleasedOnEveryExit ==
    /\ (Settled /\ browser # "none") =>
          /\ Count("disconnect") = (IF browser = "connected" THEN 1 ELSE 0)
          /\ Count("close") = (IF browser = "launched" THEN 1 ELSE 0)
          /\ (browser = "connected") <=> env.BROWSER_WS_ENDPOINT
    /\ browser = "none" => Count("disconnect") + Count("close") = 0

\* a locally launched engine was closed after setContent threw
C1_Witness ==
    /\ Settled
    /\ browser = "launched"
    /\ Threw("setContent")
    /\ Count("close") = 1

\* C2 (as claimed): when a step of the try block throws E and the release
\* throws R too, the caller can still observe E.
C2_OriginalErrorSurvivesRelease ==
    (pc = "done" /\ thrown # "" /\ (Threw("disconnect") \/ Threw("close")))
        => outcome = Rejected(thrown)

\* C3 (as claimed): no step is made twice, the engine is acquired at most
\* once, a missing Chrome fails with the descriptive error without a launch,
\* and an error thrown by connect, launch, setContent or pdf reaches the
\* caller as that same error.
C3_NoRetryErrorsUnchanged ==
    /\ Count("connect") + Count("launch") <= 1
    /\ \A op \in {"newPage", "setContent", "pdf"} : Count(op) <= 1
    /\ (pc = "done" /\ mpc = "returned" /\ ~env.BROWSER_WS_ENDPOINT
          /\ \A i \in 1..Len(chromePaths(env)) : chromePaths(env)[i] \notin env.existing)
        => outcome = Rejected(ChromeNotFound) /\ Count("launch") = 0
    /\ \A op \in {"connect", "launch", "setContent", "pdf"} :
          (pc = "done" /\ Threw(op)) => outcome = Rejected(ErrorOf(op))

\* the part of C3 the code keeps: no retry, and the Chrome-not-found failure
C3_NoRetry ==
    /\ Count("connect") + Count("launch") <= 1
    /\ \A op \in {"newPage", "setContent", "pdf"} : Count(op) <= 1
    /\ (pc = "done" /\ mpc = "returned" /\ ~env.BROWSER_WS_ENDPOINT
          /\ \A i \in 1..Len(chromePaths(env)) : chromePaths(env)[i] \notin env.existing)
        => outcome = Rejected(ChromeNotFound) /\ Count("launch") = 0

\* C4: the call has exactly two outcomes.  It is settled exactly when it is
\* done; it resolves only with the complete buffer page.pdf returned, after
\* rendering, acquisition, newPage, setContent, pdf and the release all
\* succeeded, each made once and in that order; otherwise it rejects.
C4_CompleteBufferOrReject ==
    /\ (pc = "done") <=> Settled
    /\ outcome.kind \in {"pending", "resolved", "rejected"}
    /\ outcome.kind = "resolved" =>
          /\ outcome.value = pdfBuffer
          /\ pdfBuffer \in Buffers
          /\ \A i \in 1..Len(log) : log[i].res = "ok"
          /\ [i \in 1..Len(log) |-> log[i].op] \in
                {<<"markdownToHtml", acquire, "newPage", "setContent", "pdf", release>> :
                    acquire \in {"connect", "launch"}, release \in {"disconnect", "close"}}
    /\ (pc = "done" /\ \E i \in 1..Len(log) : log[i].res = "throw") =>
          outcome.kind = "rejected"

\* a call that resolved with the five bytes page.pdf returned
C4_Witness == outcome.kind = "resolved" /\ Len(outcome.value) = 5 /\ Count("pdf") = 1

(***************************************************************************)
(* Claims about the renderer, checked under SpecRender.                    *)
(***************************************************************************)
\* astToHtml has returned the body fragment
Rendered == mpc \in {"rendered", "returned"}

\* the position of the first token tok in seq, 0 when it has none
IndexOf(seq, tok) ==
    IF \E i \in 1..Len(seq) : seq[i] = tok
    THEN CHOOSE i \in 1..Len(seq) : seq[i] = tok /\ \A j \in 1..(i - 1) : seq[j] # tok
    ELSE 0

\* the tokens of seq that directly follow a token of the set marks, in order
TokensAfter(seq, marks) ==
    LET at == SelectSeq([i \in 1..(Len(seq) - 1) |-> i], LAMBDA i : seq[i] \in marks)
    IN  [k \in 1..Len(at) |-> seq[at[k] + 1]]

\* the five encodings, as the claim lists them
Encoding(c) ==
    CASE c = "&"  -> <<"&", "a", "m", "p", ";">>
      [] c = "<"  -> <<"&", "l", "t", ";">>
      [] c = ">"  -> <<"&", "g", "t", ";">>
      [] c = "\"" -> <<"&", "q", "u", "o", "t", ";">>
      [] c = "'"  -> <<"&", "#", "0", "3", "9", ";">>
Specials == {"&", "<", ">", "\"", "'"}

\* the encoding of c starts at position i of frag
EncodingAt(frag, i, c) ==
    /\ i + Len(Encoding(c)) - 1 <= Len(frag)
    /\ SubSeq(frag, i, i + Len(Encoding(c)) - 1) = Encoding(c)

RECURSIVE Decode(_)
\* frag read left to right, every encoding replaced by its character
Decode(frag) ==
    IF frag = <<>> THEN <<>>
    ELSE IF \E c \in Specials : EncodingAt(frag, 1, c)
         THEN LET c == CHOOSE c \in Specials : EncodingAt(frag, 1, c)
              IN  <<c>> \o Decode(SubSeq(frag, Len(Encoding(c)) + 1, Len(frag)))
         ELSE <<Head(frag)>> \o Decode(Tail(frag))

RECURSIVE EscapedLen(_)
\* the length of a value with each special character replaced once
EscapedLen(v) ==
    IF v = <<>> THEN 0
    ELSE (IF Head(v) \in Specials THEN Len(Encoding(Head(v))) ELSE 1) + EscapedLen(Tail(v))

\* the fragment the renderer emitted for the value of a text, inlineCode or
\* code node that is the only child of the root
ValueFragment(kind, out) ==
    CASE kind = "text" -> out
      [] kind = "inlineCode" ->
           SubSeq(out, IndexOf(out, "; padding: 2px 4px; border-radius: 3px;\">") + 1, Len(out) - 1)
      [] kind = "code" ->
           SubSeq(out, IndexOf(out, ";\"><code>") + 1, Len(out) - 1)

OnlyChild == ast.children[1]
IsValueCase == Len(ast.children) = 1 /\ OnlyChild.type \in {"text", "inlineCode", "code"}

\* C5: the fragment emitted for the value of a text, inlineCode or code node
\* holds no literal < > " or ', every & in it starts one of the five
\* encodings, it decodes back to the value, and it is exactly as long as the
\* value with each special character replaced once (so nothing is escaped
\* twice and every other character is emitted unchanged, in order).
C5_ValuesEscapedOnce ==
    (Rendered /\ IsValueCase) =>
        LET v    == OnlyChild.value
            frag == ValueFragment(OnlyChild.type, htmlContent)
        IN  /\ \A i \in 1..Len(frag) : frag[i] \notin {"<", ">", "\"", "'"}
            /\ \A i \in 1..Len(frag) :
                  frag[i] = "&" => \E c \in Specials : EncodingAt(frag, i, c)
            /\ Decode(frag) = v
            /\ Len(frag) = EscapedLen(v)
            /\ OnlyChild.type = "inlineCode" => htmlContent[Len(htmlContent)] = "</code>"
            /\ OnlyChild.type = "code" => htmlContent[Len(htmlContent)] = "</code></pre>"

\* an inline code node whose value is &' has been rendered
C5_Witness ==
    /\ Rendered
    /\ IsValueCase
    /\ OnlyChild.type = "inlineCode"
    /\ OnlyChild.value = <<"&", "'">>

RECURSIVE ExpectedCellTags(_)
RECURSIVE ExpectedCellTagsOfAll(_)
RECURSIVE ExpectedCellTagsOfRows(_, _, _)
ExpectedCellTagsOfAll(nodes) ==
    IF nodes = <<>> THEN <<>>
    ELSE ExpectedCellTags(Head(nodes)) \o ExpectedCellTagsOfAll(Tail(nodes))
\* the cells of the rows from index i on, of a table of n rows: th in row 0
\* of a table of two or more rows, td everywhere else; each followed by the
\* cells of the tables inside it
ExpectedCellTagsOfRows(rows, i, n) ==
    IF rows = <<>> THEN <<>>
    ELSE LET tag   == IF n >= 2 /\ i = 0 THEN "th" ELSE "td"
             cells == Head(rows).children
             OfCells[j \in 0..Len(cells)] ==
                 IF j = 0 THEN <<>>
                 ELSE OfCells[j - 1] \o <<tag>> \o ExpectedCellTagsOfAll(cells[j].children)
         IN  OfCells[Len(cells)] \o ExpectedCellTagsOfRows(Tail(rows), i + 1, n)
\* the tags of all table cells under node, in document order
ExpectedCellTags(node) ==
    IF node.type = "table"
    THEN ExpectedCellTagsOfRows(node.children, 0, Len(node.children))
    ELSE ExpectedCellTagsOfAll(Kids(node))

\* the tags of the cell elements opened and closed in a fragment, in order
OpenedCellTags(out) == SelectSeq(TokensAfter(out, {"<"}), LAMBDA t : t \in {"th", "td"})
ClosedCellTags(out) == SelectSeq(TokensAfter(out, {"</"}), LAMBDA t : t \in {"th", "td"})

\* C6: in every rendered tree the cells of a one-row table are all td, and
\* in a table of two or more rows the cells of row 0 are th and all others td.
C6_HeaderRowOnlyWithTwoRows ==
    Rendered =>
        /\ OpenedCellTags(htmlContent) = ExpectedCellTags(ast)
        /\ Len(ClosedCellTags(htmlContent)) = Len(OpenedCellTags(htmlContent))

\* a table of one row and two cells has been rendered
C6_Witness ==
    /\ Rendered
    /\ Len(ast.children) = 1
    /\ OnlyChild.type = "table"
    /\ Len(OnlyChild.children) = 1
    /\ OpenedCellTags(htmlContent) = <<"td", "td">>

RECURSIVE ExpectedListMargins(_, _)
RECURSIVE ExpectedListMarginsOfAll(_, _)
ExpectedListMarginsOfAll(nodes, k) ==
    IF nodes = <<>> THEN <<>>
    ELSE ExpectedListMargins(Head(nodes), k) \o ExpectedListMarginsOfAll(Tail(nodes), k)
\* the margins of the lists under node in document order, node having k
\* lists among its ancestors: 20 + 20*k for a list
ExpectedListMargins(node, k) ==
    IF node.type = "list"
    THEN <<ToString(20 + 20 * k)>> \o ExpectedListMarginsOfAll(Kids(node), k + 1)
    ELSE ExpectedListMarginsOfAll(Kids(node), k)

\* the margin-left values of the list elements of a fragment, in order
ListMargins(out) == TokensAfter(out, {" style=\"margin-left: "})

\* C7: rendered from depth 0, every list carries margin-left 20 + 20*k px,
\* k being the number of lists among its ancestors, whatever other nodes lie
\* between.
C7_ListMarginByListDepth ==
    Rendered => ListMargins(htmlContent) = ExpectedListMargins(ast, 0)

\* three lists inside one another have been rendered
C7_Witness == Rendered /\ ListMargins(htmlContent) = <<"20", "40", "60">>

IsHeadingCase == Len(ast.children) = 1 /\ OnlyChild.type = "heading"

\* the value the claim expects for field f of the heading of level l: the one
\* supplied in rules.headingStyles["h" + l] when there is one, else default d
SuppliedOr(l, f, d) ==
    LET key == "h" \o ToString(l)
    IN  IF key \in DOMAIN rules.headingStyles /\ f \in DOMAIN rules.headingStyles[key]
        THEN rules.headingStyles[key][f]
        ELSE d

\* the four style values of the heading element that opens a fragment
EmittedHeadingStyle(out) ==
    [fontSize |-> out[4], fontWeight |-> out[6], marginTop |-> out[8], marginBottom |-> out[10]]

\* C8 (as claimed): the style of the emitted heading carries, for each of the
\* four fields, the value supplied for the level when one is supplied, and
\* the fixed default (16, 600, 12, 6) when the level or the field is absent.
C8_SuppliedValueOrDefault ==
    (Rendered /\ IsHeadingCase) =>
        LET l == OnlyChild.depth
        IN  /\ SubSeq(htmlContent, 1, 3) = <<"<h", ToString(l), " style=\"font-size: ">>
            /\ EmittedHeadingStyle(htmlContent) =
                  [fontSize     |-> ToString(SuppliedOr(l, "fontSize", 16)),
                   fontWeight   |-> ToString(SuppliedOr(l, "fontWeight", 600)),
                   marginTop    |-> ToString(SuppliedOr(l, "marginTop", 12)),
                   marginBottom |-> ToString(SuppliedOr(l, "marginBottom", 6))]

\* what the code does instead: a supplied value that is 0 is replaced by the
\* default, like an absent one
SuppliedNonZeroOr(l, f, d) == IF SuppliedOr(l, f, d) = 0 THEN d ELSE SuppliedOr(l, f, d)

C8_NonZeroValueOrDefault ==
    (Rendered /\ IsHeadingCase) =>
        LET l == OnlyChild.depth
        IN  EmittedHeadingStyle(htmlContent) =
                  [fontSize     |-> ToString(SuppliedNonZeroOr(l, "fontSize", 16)),
                   fontWeight   |-> ToString(SuppliedNonZeroOr(l, "fontWeight", 600)),
                   marginTop    |-> ToString(SuppliedNonZeroOr(l, "marginTop", 12)),
                   marginBottom |-> ToString(SuppliedNonZeroOr(l, "marginBottom", 6))]

\* generateStyledHtml has returned the document
Returned == mpc = "returned"

\* the sizes a document declares: the tokens after the size label of @page
DeclaredPageSizes(doc) == TokensAfter(doc, {"    @page {\n      size: "})

\* C9: the document declares @page size 8.5in 11in if and only if pageSize
\* is exactly "Letter", and 210mm 297mm for every other value and for no
\* value; no page size keeps the document from being produced.
C9_LetterOrA4 ==
    /\ Returned =>
          DeclaredPageSizes(html) =
              <<IF "pageSize" \in DOMAIN rules /\ rules.pageSize = "Letter"
                THEN "8.5in 11in" ELSE "210mm 297mm">>
    /\ mpc = "rendered" => ENABLED WrapDocument

\* a document has been produced for a rule without a page size
C9_Witness ==
    /\ Returned
    /\ pc = "idle"
    /\ "pageSize" \notin DOMAIN rules
    /\ DeclaredPageSizes(html) = <<"210mm 297mm">>

\* the tokens of the @page margin declaration, up to its semicolon
DeclaredMargin(doc) ==
    LET i == IndexOf(doc, ";\n      margin: ")
    IN  SubSeq(doc, i + 1, i + 12)

\* C10: the @page margin declaration lists the margins in the order top,
\* right, bottom, left, each the value of the rule followed by mm.
C10_MarginsTopRightBottomLeft ==
    Returned =>
        LET m == DeclaredMargin(html)
        IN  /\ IndexOf(html, ";\n      margin: ") = IndexOf(html, "    @page {\n      size: ") + 2
            /\ <<m[1], m[4], m[7], m[10]>> =
                  <<ToString(rules.marginTop), ToString(rules.marginRight),
                    ToString(rules.marginBottom), ToString(rules.marginLeft)>>
            /\ <<m[2], m[5], m[8], m[11]>> = <<"mm", "mm", "mm", "mm">>
            /\ <<m[3], m[6], m[9]>> = <<" ", " ", " ">>
            /\ m[12] = ";\n      "

\* a document has been produced for four different margins
C10_Witness ==
    /\ Returned
    /\ pc = "idle"
    /\ rules.marginTop = 30
    /\ rules.marginRight = 0
    /\ rules.marginBottom = 25
    /\ rules.marginLeft = 20

(***************************************************************************)
(* Claims about sequences of calls, checked under SpecCalls.               *)
(***************************************************************************)
\* the calls that have completed, the current one included once it is over
CompletedCalls ==
    history \o (IF mpc \in {"returned", "thrown"} THEN <<Completion>> ELSE <<>>)

HandledTypes ==
    {"root", "heading", "paragraph", "text", "emphasis", "strong", "inlineCode", "code",
     "list", "listItem", "blockquote", "table", "link", "image", "thematicBreak"}

RECURSIVE Concat(_)
Concat(seqs) == IF seqs = <<>> THEN <<>> ELSE Head(seqs) \o Concat(Tail(seqs))

\* the fragment of each child of node rendered on its own, in document order
ChildFragments(node, depth) ==
    IF "children" \in DOMAIN node
    THEN [i \in 1..Len(node.children) |-> astToHtml(node.children[i], rules, depth)]
    ELSE <<>>

IsUnhandledCase ==
    /\ Len(ast.children) = 1
    /\ ast.children[1].type \notin HandledTypes

\* C12: a node of a type astToHtml does not handle never makes the rendering
\* fail, whether it has children, an empty list of children or none, and its
\* fragment is exactly its children's fragments in order, with no wrapper.
C12_UnhandledNodeIsItsChildren ==
    IsUnhandledCase =>
        /\ mpc # "thrown"
        /\ (mpc = "parsed" => ENABLED RenderAst)
        /\ (Rendered => htmlContent = Concat(ChildFragments(OnlyChild, 0)))

\* an unhandled node with two different children has been rendered
C12_Witness ==
    /\ IsUnhandledCase
    /\ Rendered
    /\ "children" \in DOMAIN OnlyChild
    /\ Len(OnlyChild.children) = 2
    /\ OnlyChild.children[1] # OnlyChild.children[2]
    /\ htmlContent # <<>>

\* the characters that tell the children of the ordering cases apart; no
\* rule string and no literal of the renderer is one of them
Markers == {"x", "y", "z"}
IsMarker(tok) == tok \in Markers

\* the markers of a tree in document order
RECURSIVE MarkersOf(_)
MarkersOf(node) ==
    IF "value" \in DOMAIN node THEN SelectSeq(node.value, IsMarker)
    ELSE IF "children" \in DOMAIN node
         THEN Concat([i \in 1..Len(node.children) |-> MarkersOf(node.children[i])])
         ELSE <<>>

\* the node with its children taken away
Emptied(node) == [node EXCEPT !.children = <<>>]

\* out is the rendering of the emptied node with inner put in at one place
Encloses(out, empty, inner) ==
    \E p \in 0..Len(empty) :
        out = SubSeq(empty, 1, p) \o inner \o SubSeq(empty, p + 1, Len(empty))

\* C14: a container node's rendering holds its children's fragments in
\* document order, each exactly once: the texts of the tree come out in
\* document order, and, for every container but the table (whose rows and
\* cells have no fragment of their own), the rendering is the container's
\* own markup around the concatenation of its children's fragments.
C14_ChildrenInOrderOnce ==
    Rendered =>
        /\ SelectSeq(htmlContent, IsMarker) = MarkersOf(ast)
        /\ (Len(ast.children) = 1 /\ "children" \in DOMAIN OnlyChild /\ OnlyChild.type # "table")
           => Encloses(htmlContent,
                       astToHtml(Emptied(OnlyChild), rules, 0),
                       Concat(ChildFragments(OnlyChild, IF OnlyChild.type = "list" THEN 1 ELSE 0)))

\* a container with three children, no two neighbours alike, has been rendered
C14_Witness ==
    /\ Rendered
    /\ Len(ast.children) = 1
    /\ "children" \in DOMAIN OnlyChild
    /\ OnlyChild.type = "listItem"
    /\ Len(OnlyChild.children) = 3
    /\ OnlyChild.children[1] # OnlyChild.children[2]
    /\ OnlyChild.children[2] # OnlyChild.children[3]
    /\ Len(SelectSeq(htmlContent, IsMarker)) >= 3

\* the style collections of a rule and their complete default contents
StyleDefaults ==
    [headingStyles |-> DEFAULT_HEADING_STYLES,
     codeBlockStyles |-> DEFAULT_CODE_BLOCK_STYLES,
     tableStyles |-> DEFAULT_TABLE_STYLES]

\* the rule lacks a style collection, an entry of one or a field of an entry
LacksStyle ==
    \E c \in DOMAIN StyleDefaults :
        \/ c \notin DOMAIN rules
        \/ DOMAIN rules[c] # DOMAIN StyleDefaults[c]
        \/ /\ c = "headingStyles"
           /\ \E h \in DOMAIN rules[c] : DOMAIN rules[c][h] # HeadingFields

\* the defaults documented for the code-block and table style fields, as
\* the text the document shows for them
DocumentedDefaults ==
    [codeBlockStyles |->
        [fontFamily |-> <<"monospace">>, fontSize |-> 11, backgroundColor |-> <<"#f5f5f5">>,
         padding |-> 12, borderRadius |-> 4, lineHeight |-> <<"1.4">>],
     tableStyles |->
        [borderColor |-> <<"#ddd">>, headerBackgroundColor |-> <<"#f9f9f9">>,
         cellPadding |-> 8, fontSize |-> 11]]

\* the style collection c of the rule, each field it lacks set to its default
Filled(c) ==
    [f \in DOMAIN DocumentedDefaults[c] |->
        IF c \in DOMAIN rules /\ f \in DOMAIN rules[c]
        THEN rules[c][f] ELSE DocumentedDefaults[c][f]]

\* the rule with its code-block and table styles completed by the defaults
Completed ==
    [k \in DOMAIN rules \cup {"codeBlockStyles", "tableStyles"} |->
        IF k \in {"codeBlockStyles", "tableStyles"} THEN Filled(k) ELSE rules[k]]

\* C13: a rule with style configuration missing (fields, heading entries or
\* a whole style collection) never makes the rendering raise, and the
\* rendering is the one the documented defaults give.
C13_MissingStyleNeverRaises ==
    LacksStyle =>
        /\ mpc # "thrown"
        /\ (Rendered => htmlContent = astToHtml(ast, Completed, 0))

\* the part of C13 the code satisfies: with the three style collections
\* present, whatever they lack, the rendering completes with the defaults
C13_PresentCollectionsNeverRaise ==
    (LacksStyle /\ \A c \in DOMAIN StyleDefaults : c \in DOMAIN rules) =>
        /\ mpc # "thrown"
        /\ (Rendered => htmlContent = astToHtml(ast, Completed, 0))

(***************************************************************************)
(* Claims about the style sheet of the document, checked under SpecRender. *)
(***************************************************************************)
\* how often the document holds the text tok of the style sheet
Occurrences(tok) == Cardinality({i \in 1..Len(html) : html[i] = tok})

\* rules[f] when the rule has it, none otherwise
Setting(f, none) == IF f \in DOMAIN rules THEN rules[f] ELSE none

\* C15: the document holds the rule 'h1 { page-break-before: always; }'
\* exactly when pageBreakBeforeHeadings is "h1" and the rule
\* 'h2 { page-break-before: always; }' exactly when it is "h2", so neither
\* for "none" or any other value; it holds the 'h1, h2, h3' rule with
\* orphans: 3 and widows: 3 exactly when preventOrphanHeadings is truthy.
C15_PaginationRulesBySetting ==
    Returned =>
        /\ Occurrences("h1 { page-break-before: always; }")
             = (IF Setting("pageBreakBeforeHeadings", "") = "h1" THEN 1 ELSE 0)
        /\ Occurrences("h2 { page-break-before: always; }")
             = (IF Setting("pageBreakBeforeHeadings", "") = "h2" THEN 1 ELSE 0)
        /\ Occurrences("h1, h2, h3 { page-break-after: avoid; orphans: 3; widows: 3; }")
             = (IF Setting("preventOrphanHeadings", 0) # 0 THEN 1 ELSE 0)

\* a document with a break before h2 only and no orphan control
C15_Witness ==
    /\ Returned
    /\ Setting("pageBreakBeforeHeadings", "") = "h2"
    /\ Setting("preventOrphanHeadings", 0) = 0
    /\ Occurrences("h2 { page-break-before: always; }") = 1
    /\ Occurrences("h1 { page-break-before: always; }") = 0

\* the margin boxes of the page and the rule field each takes its text from
MarginBoxes == [headerText |-> "@top-center", footerText |-> "@bottom-center"]

\* the tokens that open and close the content rule of a margin box
BoxOpen(box) == box \o " { content: \""
BoxClose == "\"; }"

\* the text between the quotes of the content rule of box: the tokens from
\* the opening one to the first closing one after it
BoxContent(box) ==
    LET i == IndexOf(html, BoxOpen(box))
        j == CHOOSE k \in (i + 1)..Len(html) :
               html[k] = BoxClose /\ \A m \in (i + 1)..(k - 1) : html[m] # BoxClose
    IN  SubSeq(html, i + 1, j - 1)

\* the rule has a text for f: neither null nor empty
Present(f) == f \in DOMAIN rules /\ rules[f] # <<>>

\* what ends a double-quoted string of a style sheet: the double quote, and
\* the unescaped line feed, at which the string is cut off as malformed
CssStringEnd == {"\"", "\n"}

\* the content rule of each margin box is there exactly when its text is
\* present, and then carries the escaped text, none of it in ends
MarginBoxesCarryText(ends) ==
    \A f \in DOMAIN MarginBoxes :
        /\ Occurrences(BoxOpen(MarginBoxes[f])) = (IF Present(f) THEN 1 ELSE 0)
        /\ Present(f) =>
             /\ BoxContent(MarginBoxes[f]) = escapeHtml(rules[f])
             /\ \A k \in 1..Len(BoxContent(MarginBoxes[f])) :
                  BoxContent(MarginBoxes[f])[k] \notin ends

\* C16: the @top-center content rule is in the document exactly when
\* headerText is present (neither null nor empty), the @bottom-center one
\* exactly when footerText is, and a rule that is there carries the escaped
\* text, in which no character of the text can end the quoted content string.
C16_MarginTextStaysQuoted == Returned => MarginBoxesCarryText(CssStringEnd)

\* the part of C16 the code satisfies: presence, the escaped text, and no
\* double quote inside the content string
C16_NoQuoteInMarginText == Returned => MarginBoxesCarryText({"\""})

(***************************************************************************)
(* Claims about the geometry of the PDF, checked under Spec.               *)
(***************************************************************************)
\* the external call op was made and returned before the call after was made
ReturnedBefore(op, after) ==
    \A j \in 1..Len(log) :
        log[j].op = after => \E i \in 1..(j - 1) : log[i] = [op |-> op, res |-> "ok"]

\* C17: the options handed to page.pdf agree with the document handed to
\* page.setContent: format "Letter" exactly when the document declares size
\* 8.5in 11in and "A4" exactly when it declares 210mm 297mm, the same four
\* millimetre margins on the same sides, background printing on, and the
\* document was loaded with a wait for the network to be idle before
\* page.pdf was called.
C17_PdfGeometryMatchesDocument ==
    pdfCalls # <<>> =>
        LET o   == pdfCalls[1]
            doc == setContentCalls[1].html
            m   == DeclaredMargin(doc)
        IN  /\ Len(pdfCalls) = 1 /\ Len(setContentCalls) = 1
            /\ o.format \in {"Letter", "A4"}
            /\ o.format = "Letter" <=> DeclaredPageSizes(doc) = <<"8.5in 11in">>
            /\ o.format = "A4" <=> DeclaredPageSizes(doc) = <<"210mm 297mm">>
            /\ o.margin = [top |-> <<m[1], m[2]>>, right |-> <<m[4], m[5]>>,
                           bottom |-> <<m[7], m[8]>>, left |-> <<m[10], m[11]>>]
            /\ <<m[2], m[5], m[8], m[11]>> = <<"mm", "mm", "mm", "mm">>
            /\ o.printBackground = TRUE
            /\ setContentCalls[1].waitUntil = "networkidle0"
            /\ ReturnedBefore("setContent", "pdf")

\* page.pdf was called for a Letter document with four different margins
C17_Witness ==
    /\ Len(pdfCalls) = 1
    /\ pdfCalls[1].format = "Letter"
    /\ DeclaredPageSizes(html) = <<"8.5in 11in">>
    /\ Cardinality({pdfCalls[1].margin[side] : side \in {"top", "right", "bottom", "left"}}) = 4

(***************************************************************************)
(* Claims about what a rendering leaves alone, checked under SpecRender.   *)
(***************************************************************************)
\* C18: no step of markdownToHtml, whether the call returns or fails,
\* changes the rule (its nested style maps, which may be the shared default
\* objects, included) or any node of the tree.
C18_InputsUnchanged == [][ast' = ast /\ rules' = rules]_vars

\* a table was rendered with defaults under a rule whose table styles are
\* still the empty map the caller passed
C18_Witness ==
    /\ Returned
    /\ "tableStyles" \in DOMAIN rules
    /\ DOMAIN rules.tableStyles = {}
    /\ Len(ast.children) = 1
    /\ OnlyChild.type = "table"
    /\ Len(OnlyChild.children) = 2
    /\ IndexOf(htmlContent, "#ddd") > 0

(***************************************************************************)
(* Claims about concurrent calls, checked under SpecConcurrent.            *)
(***************************************************************************)
\* how often handle h has been released
ReleasesOf(h) == Cardinality({i \in 1..Len(releases) : releases[i].handle = h})

\* C19: whatever the interleaving of the calls, each call's document is the
\* one markdownToHtml gives for its own Markdown and rule, it loads that
\* document and prints with the options of its own rule, it resolves with
\* the bytes of its own document, the handle a call releases is the one it
\* acquired, and every acquired handle is released at most once, exactly
\* once by the time its call has completed.
C19_CallsAreIsolated ==
    /\ \A c \in CallIds :
          /\ calls[c].html # <<>> => calls[c].html = markdownToHtml(calls[c].ast, calls[c].rules)
          /\ calls[c].loaded # <<>> => calls[c].loaded = markdownToHtml(calls[c].ast, calls[c].rules)
          /\ calls[c].options # <<>> => calls[c].options = <<PdfOptions(calls[c].rules)>>
          /\ calls[c].outcome.kind = "resolved" =>
               calls[c].outcome.value = PdfOf(markdownToHtml(calls[c].ast, calls[c].rules))
          /\ calls[c].browser # 0 => handles[calls[c].browser] = c
    /\ \A i \in 1..Len(releases) :
          /\ releases[i].handle \in 1..Len(handles)
          /\ handles[releases[i].handle] = releases[i].call
    /\ \A h \in 1..Len(handles) :
          /\ ReleasesOf(h) <= 1
          /\ calls[handles[h]].pc = "done" => ReleasesOf(h) = 1

\* two calls on different inputs, both resolved, the one that acquired its
\* handle first releasing it last
C19_Witness ==
    /\ calls[1].rules # calls[2].rules
    /\ calls[1].outcome.kind = "resolved"
    /\ calls[2].outcome.kind = "resolved"
    /\ Len(handles) >= 2
    /\ Len(releases) >= 2
    /\ releases[1].call # handles[1]

(***************************************************************************)
(* Claims about the stored formatting rules, checked under SpecDb.         *)
(***************************************************************************)
\* the defaults documented for the optional fields that have one; the other
\* three (description, headerText, footerText) default to null
BackfillDefaults ==
    [fontFamily |-> <<"Inter">>, fontSize |-> 12, lineHeight |-> <<"1.50">>,
     headingStyles |-> DEFAULT_HEADING_STYLES, pageSize |-> "A4",
     marginTop |-> 20, marginBottom |-> 20, marginLeft |-> 20, marginRight |-> 20,
     codeBlockStyles |-> DEFAULT_CODE_BLOCK_STYLES, tableStyles |-> DEFAULT_TABLE_STYLES,
     pageBreakBeforeHeadings |-> "h1", preventOrphanHeadings |-> 1,
     keepCodeBlocksTogether |-> 1, isPreset |-> 0]

\* the row the call has inserted
Inserted == formattingRules[Len(formattingRules)]

\* the row holds value in column f
Holds(f, value) == f \in DOMAIN Inserted /\ Inserted[f] = value

\* the row holds the default of column f: null where there is no other
HoldsDefault(f) ==
    IF f \in DOMAIN BackfillDefaults
    THEN Holds(f, BackfillDefaults[f])
    ELSE f \notin DOMAIN Inserted

\* C20: the row createFormattingRule stores holds, for each optional field,
\* the caller's value when the caller supplied one and the documented
\* default when the field was omitted, and userId and name as given.
C20_SuppliedValueOrDefault ==
    dbResult = "returned" =>
        /\ Holds("userId", request.userId)
        /\ Holds("name", request.data.name)
        /\ \A f \in OptionalFields :
              IF f \in DOMAIN request.data
              THEN Holds(f, request.data[f])
              ELSE HoldsDefault(f)

\* the part of C20 the code satisfies: a supplied value is stored when it is
\* truthy, or whatever it is for the two flags read with ??; an omitted
\* field, and a supplied 0 or empty string, is stored as the default
C20_TruthyValueOrDefault ==
    dbResult = "returned" =>
        /\ Holds("userId", request.userId)
        /\ Holds("name", request.data.name)
        /\ \A f \in OptionalFields :
              IF f \in DOMAIN request.data
                 /\ (f \in {"preventOrphanHeadings", "keepCodeBlocksTogether"}
                     \/ Truthy(request.data, f))
              THEN Holds(f, request.data[f])
              ELSE HoldsDefault(f)

(***************************************************************************)
(* Claims about upsertUser, checked under SpecUsers.                       *)
(***************************************************************************)
\* the role stored for openId in table, <<>> when there is no such row
StoredRole(table, openId) ==
    IF \E i \in 1..Len(table) : table[i].openId = openId
    THEN <<table[CHOOSE i \in 1..Len(table) : table[i].openId = openId].role>>
    ELSE <<>>

\* role is written, as r, into the values and into the update set
WritesRole(st, r) ==
    /\ "role" \in DOMAIN st.values /\ st.values.role = r
    /\ "role" \in DOMAIN st.set /\ st.set.role = r

\* C21: when upsertUser issues its statement, an explicit role is written
\* into the inserted values and the update set; with no role given, the
\* owner's openId gets 'admin' in both and any other openId gets a role in
\* neither, and then the role of an existing row is the same after the call.
C21_OwnerBecomesAdmin ==
    [][statement' # statement =>
        IF "role" \in DOMAIN request THEN WritesRole(statement', request.role)
        ELSE IF request.openId = ownerOpenId THEN WritesRole(statement', "admin")
        ELSE /\ "role" \notin DOMAIN statement'.values
             /\ "role" \notin DOMAIN statement'.set
             /\ StoredRole(users, request.openId) # <<>>
                  => StoredRole(users', request.openId) = StoredRole(users, request.openId)]_vars

\* the owner signed in with no role given and the row stored as 'user' is
\* now 'admin'
C21_Witness ==
    /\ dbResult = "returned"
    /\ statement # <<>>
    /\ "role" \notin DOMAIN request
    /\ request.openId = ownerOpenId
    /\ Len(users) = 1
    /\ users[1].role = "admin"
    /\ users[1].lastSignedIn = Now

Between(seq, open, close) ==
    LET rest == SubSeq(seq, IndexOf(seq, open) + 1, Len(seq))
    IN  SubSeq(rest, 1, IndexOf(rest, close) - 1)

LinkOpen == "<a href=\""
LinkStyle == "\" style=\"color: #0066cc; text-decoration: underline;\">"
ImageOpen == "<img src=\""
ImageAlt == "\" alt=\""
ImageStyle == "\" style=\"max-width: 100%; height: auto; margin: 1em 0;\" />"

IsLinkImageCase == Len(ast.children) = 1 /\ OnlyChild.type \in {"link", "image"}

\* C23: the href of a link, and the src and alt of an image, are escapeHtml
\* of the node's url and alt (the empty string when it has no alt): the
\* value holds no double quote, and a javascript: URL is emitted as given.
C23_UrlsEscapedNotFiltered ==
    Rendered /\ IsLinkImageCase =>
        /\ OnlyChild.type = "link" =>
              LET href == Between(htmlContent, LinkOpen, LinkStyle)
              IN  /\ htmlContent[1] = LinkOpen
                  /\ href = escapeHtml(OnlyChild.url)
                  /\ \A i \in 1..Len(href) : href[i] # "\""
                  /\ OnlyChild.url = JavascriptUrl => href = JavascriptUrl
        /\ OnlyChild.type = "image" =>
              LET src == Between(htmlContent, ImageOpen, ImageAlt)
                  alt == Between(htmlContent, ImageAlt, ImageStyle)
              IN  /\ htmlContent[1] = ImageOpen
                  /\ htmlContent[Len(htmlContent)] = ImageStyle
                  /\ src = escapeHtml(OnlyChild.url)
                  /\ alt = escapeHtml(IF "alt" \in DOMAIN OnlyChild THEN OnlyChild.alt ELSE <<>>)
                  /\ Len(htmlContent) = Len(src) + Len(alt) + 3
                  /\ \A i \in 1..Len(src) : src[i] # "\""
                  /\ \A i \in 1..Len(alt) : alt[i] # "\""
                  /\ OnlyChild.url = JavascriptUrl => src = JavascriptUrl

\* an image with a javascript: URL and no alt text, rendered
C23_Witness ==
    /\ Rendered
    /\ IsLinkImageCase
    /\ OnlyChild.type = "image"
    /\ OnlyChild.url = JavascriptUrl
    /\ "alt" \notin DOMAIN OnlyChild
    /\ htmlContent = <<ImageOpen>> \o JavascriptUrl \o <<ImageAlt, ImageStyle>>

(***************************************************************************)
(* Claims about the print rules, checked under SpecCalls.                  *)
(***************************************************************************)
FixedPrintRules ==
    {"    h1, h2, h3, h4, h5, h6 {\n      page-break-after: avoid;\n    }\n\n",
     "    pre {\n      page-break-inside: avoid;\n    }\n\n",
     "    table {\n      page-break-inside: avoid;\n    }\n\n",
     "    img {\n      page-break-inside: avoid;\n    }\n\n"}

\* r without its keepCodeBlocksTogether
ButForKeepTogether(r) == Restrict(r, DOMAIN r \ {"keepCodeBlocksTogether"})

\* C24: every document markdownToHtml returns holds each of the four fixed
\* print rules once, and two calls whose Markdown is the same and whose
\* rules differ at most in keepCodeBlocksTogether complete alike and return
\* the same HTML, token for token.
C24_KeepTogetherHasNoEffect ==
    \A i, j \in 1..Len(CompletedCalls) :
        /\ CompletedCalls[i].result = "returned" =>
              \A tok \in FixedPrintRules :
                  Cardinality({k \in 1..Len(CompletedCalls[i].html) :
                                 CompletedCalls[i].html[k] = tok}) = 1
        /\ (CompletedCalls[i].ast = CompletedCalls[j].ast
            /\ ButForKeepTogether(CompletedCalls[i].rules) = ButForKeepTogether(CompletedCalls[j].rules))
           => (CompletedCalls[i].result = CompletedCalls[j].result
               /\ CompletedCalls[i].html = CompletedCalls[j].html)

\* the same document rendered with the flag on, off and absent
C24_Witness ==
    /\ Len(CompletedCalls) = 3
    /\ \A i \in 1..3 : CompletedCalls[i].ast = CodeDoc /\ CompletedCalls[i].result = "returned"
    /\ "keepCodeBlocksTogether" \in DOMAIN CompletedCalls[1].rules
    /\ CompletedCalls[1].rules.keepCodeBlocksTogether = 1
    /\ "keepCodeBlocksTogether" \in DOMAIN CompletedCalls[2].rules
    /\ CompletedCalls[2].rules.keepCodeBlocksTogether = 0
    /\ "keepCodeBlocksTogether" \notin DOMAIN CompletedCalls[3].rules

(***************************************************************************)
(* Claims about the order of the steps, checked under Spec.                *)
(***************************************************************************)
\* the place of each external call in the order render, acquire, newPage,
\* setContent, pdf, release
StepRank ==
    [markdownToHtml |-> 1, connect |-> 2, launch |-> 2, newPage |-> 3,
     setContent |-> 4, pdf |-> 5, disconnect |-> 6, close |-> 6]

\* the call op was made and returned
Succeeded(op) == \E i \in 1..Len(log) : log[i] = [op |-> op, res |-> "ok"]

\* C25: in every run the calls made occur in the order render, acquire,
\* newPage, setContent, pdf, release, none of them twice; each of acquire to
\* pdf is made only after the step before it succeeded, and a release only
\* after an engine was acquired; a render failure ends the call with no
\* engine acquired and nothing else called.
C25_StepsInOrder ==
    /\ \A i, j \in 1..Len(log) : i < j => StepRank[log[i].op] < StepRank[log[j].op]
    /\ \A i \in 1..Len(log) :
          LET before == {log[k] : k \in 1..(i - 1)}
              ok(ops) == \E op \in ops : [op |-> op, res |-> "ok"] \in before
          IN  CASE log[i].op \in {"connect", "launch"} -> ok({"markdownToHtml"})
                [] log[i].op = "newPage" -> ok({"connect", "launch"})
                [] log[i].op = "setContent" -> ok({"newPage"})
                [] log[i].op = "pdf" -> ok({"setContent"}) /\ page \in {"loaded", "closed"}
                [] log[i].op \in {"disconnect", "close"} -> ok({"connect", "launch"})
                [] OTHER -> i = 1
    /\ Threw("markdownToHtml") =>
          /\ Len(log) = 1
          /\ pc = "done"
          /\ browser = "none"
          /\ outcome = Rejected(ErrorOf("markdownToHtml"))
    /\ (pc \notin {"markdownToHtml", "done"} \/ browser # "none") => Succeeded("markdownToHtml")

\* a call whose setContent threw went on to the release without page.pdf
C25_Witness ==
    /\ pc = "done"
    /\ Threw("setContent")
    /\ Count("pdf") = 0
    /\ Len(log) = 5
    /\ log[5].op \in {"disconnect", "close"}

(***************************************************************************)
(* Claims about the pages of the print engine, checked under Spec.         *)
(***************************************************************************)
\* the page the call opened is still open in the engine
PageOpen == page \in {"blank", "loaded"}

\* C26 (as claimed): once the call has completed, the page it opened is no
\* longer open in the print engine, whether the engine was launched locally
\* or reached through BROWSER_WS_ENDPOINT.
C26_NoPageLeftOpen == pc = "done" => ~PageOpen

\* the part of C26 the code keeps: after a close() that returned, the page of
\* a locally launched engine is gone
C26_ClosedEngineHasNoPage == (pc = "done" /\ Succeeded("close")) => ~PageOpen

(***************************************************************************)
(* Claims about attribute values, checked under SpecRender.                *)
(***************************************************************************)
\* The literals of the renderer are tokens of several characters and the
\* text of an element is escaped, so a token that is a lone double quote in
\* a fragment is a character of caller data inside an attribute value.
RawQuotes(out) == {i \in 1..Len(out) : out[i] = "\""}

\* the rule strings astToHtml writes into style attributes
StyleStrings ==
    {rules.lineHeight}
    \cup (IF "codeBlockStyles" \in DOMAIN rules
          THEN {rules.codeBlockStyles[f] :
                  f \in {"fontFamily", "backgroundColor"} \cap DOMAIN rules.codeBlockStyles}
          ELSE {})
    \cup (IF "tableStyles" \in DOMAIN rules
          THEN {rules.tableStyles[f] :
                  f \in {"borderColor", "headerBackgroundColor"} \cap DOMAIN rules.tableStyles}
          ELSE {})

HasQuote(text) == \E i \in 1..Len(text) : text[i] = "\""

\* C27 (as claimed): no double quote of caller-supplied data, from the rule
\* or from the Markdown, stands unescaped inside an attribute value of the
\* fragment astToHtml returns.
C27_NoRawQuoteInAttribute == Rendered => RawQuotes(htmlContent) = {}

\* the part of C27 the code keeps: with no double quote in the rule strings
\* written into style attributes, the fragment holds no unescaped one,
\* whatever the URLs, alt texts and values of the Markdown
C27_MarkdownQuotesEscaped ==
    (Rendered /\ \A t \in StyleStrings : ~HasQuote(t)) => RawQuotes(htmlContent) = {}

(***************************************************************************)
(* Claims about nodes without children, checked under SpecRender.          *)
(***************************************************************************)
IsChildlessCase == IsUnhandledCase /\ "children" \notin DOMAIN OnlyChild

\* C28: a node of an unhandled type with no children contributes the empty
\* string: the fragment is empty, and the document is the one of the empty
\* tree, with no character of the node's value in it, raw or escaped.
C28_ChildlessUnhandledIsEmpty ==
    IsChildlessCase =>
        /\ mpc # "thrown"
        /\ Rendered => htmlContent = <<>>
        /\ Returned =>
              /\ html = markdownToHtml(Root(<<>>), rules)
              /\ \A i \in 1..Len(html) : html[i] \notin {"<", ">", "&"}

\* the document of a tree whose only node is a raw html node with a value
C28_Witness ==
    /\ IsChildlessCase
    /\ Returned
    /\ OnlyChild.type = "html"
    /\ "value" \in DOMAIN OnlyChild
    /\ OnlyChild.value = <<"<", "a", ">">>
    /\ html # <<>>

(***************************************************************************)
(* Claims about converter.generatePdf, checked under SpecRouter.           *)
(***************************************************************************)
\* the place of a character in the base64 alphabet, from 0
Sextet(ch) == (CHOOSE i \in 1..64 : Base64Alphabet[i] = ch) - 1

\* the bytes four base64 characters stand for
RECURSIVE Base64Decoded(_)
Base64Decoded(chars) ==
    IF chars = <<>> THEN <<>>
    ELSE LET s1 == Sextet(chars[1])
             s2 == Sextet(chars[2])
             s3 == IF chars[3] = "=" THEN 0 ELSE Sextet(chars[3])
             s4 == IF chars[4] = "=" THEN 0 ELSE Sextet(chars[4])
         IN  <<s1 * 4 + (s2 \div 16)>>
             \o (IF chars[3] = "=" THEN <<>> ELSE <<(s2 % 16) * 16 + (s3 \div 4)>>)
             \o (IF chars[4] = "=" THEN <<>> ELSE <<(s3 % 4) * 64 + s4>>)
             \o Base64Decoded(SubSeq(chars, 5, Len(chars)))

\* C29: the mutation calls generatePdfFromMarkdown at most once, with the
\* Markdown of the input, and only when that has at least one character; it
\* answers {success: true, pdfUrl, generationTimeMs} only when the call
\* resolved, pdfUrl being 'data:application/pdf;base64,' followed by the
\* base64 text of the buffer the call resolved with; when the call rejects
\* the client gets that same error and no result.
C29_ResultOnlyOnSuccess ==
    /\ Len(generateCalls) <= 1
    /\ \A i \in 1..Len(generateCalls) :
          /\ Len(generateCalls[i].markdown) >= 1
          /\ generateCalls[i].markdown = input.markdown
    /\ (rpc = "done" /\ Len(input.markdown) = 0) =>
          /\ generateCalls = <<>>
          /\ DOMAIN response = {"error"}
          /\ log = <<>>
    /\ (rpc = "done" /\ "success" \in DOMAIN response) =>
          /\ outcome.kind = "resolved"
          /\ DOMAIN response = {"success", "pdfUrl", "generationTimeMs"}
          /\ response.success = TRUE
          /\ response.pdfUrl[1] = "data:application/pdf;base64,"
          /\ Len(response.pdfUrl) % 4 = 1
          /\ Base64Decoded(Tail(response.pdfUrl)) = outcome.value
          /\ outcome.value = pdfBuffer
          /\ response.generationTimeMs >= 0
    /\ (rpc = "done" /\ outcome.kind = "rejected") => response = [error |-> outcome.error]
    /\ (rpc = "done" /\ outcome.kind = "resolved") => "success" \in DOMAIN response
    /\ rpc # "done" => response = <<>>

\* the mutation answered with the data URL of %PDF-
C29_Witness ==
    /\ rpc = "done"
    /\ "success" \in DOMAIN response
    /\ outcome.value = <<37, 80, 68, 70, 45>>
    /\ response.pdfUrl = <<"data:application/pdf;base64,", "J", "V", "B", "E", "R", "i", "0", "=">>

C30_ClearedUnlessCompletedSince ==
    (cleared /\ mutation # "success") => pdfUrl = <<>> /\ activeTab # "preview"

====
